---- MODULE Spec2Model ----
(***************************************************************************)
(* Verification model of the foxes calculation engines and of the wake     *)
(* calculation they run. Each part of the program has a specification of   *)
(* its own over the variables of that part: the chunk sizes (SpecChunks),  *)
(* the engine life cycle (SpecLife, SpecDaskInit), run_calculation         *)
(* (SpecRun, SpecRunCalculation), the chunk store (SpecStore, SpecPass),   *)
(* the chunk data (SpecData, SpecWrap), the loop dimensions (SpecDims),    *)
(* the factories (SpecFactory), the wind farm (SpecFarm), the wake         *)
(* accumulation (SpecWakes, SpecFinalize) and the Timelines wake frame     *)
(* (SpecOrder, SpecTrace, SpecTraceFair).                                  *)
(***************************************************************************)
EXTENDS Integers, Sequences, FiniteSets, TLC

(***************************************************************************)
(* Bounds of the model                                                     *)
(***************************************************************************)
MaxNStates == 11
MaxNTargets == 7
MaxNProcs == 4
MaxChunkSize == 4

(***************************************************************************)
(* State                                                                   *)
(***************************************************************************)
VARIABLES
    \* Engine.calc_chunk_sizes
    cc_self,        \* the engine's n_procs, chunk_size_states, chunk_size_points
    cc_args,        \* the arguments of the last call of calc_chunk_sizes
    cc_result,      \* what the last call returned or raised
    \* engine life cycle
    constructed,    \* the Engine objects that exist
    initialized,    \* each object's __initialized flag
    global_engine,  \* __global_engine_data__["engine"]: None or Some(object)
    lc_call,        \* the last life cycle call: operation, object, exception
    \* LocalClusterEngine.run_calculation
    run_self,       \* the engine: n_procs, chunk sizes, initialized
    run_in,         \* the input: n_states, n_targets (0: point_data is None)
    run_pc,         \* where the call is: start, submit, wait, combine, returned, raised
    run_chunks,     \* chunk_sizes_states, chunk_sizes_targets
    run_loop,       \* chunki_states, chunki_points, i0_states, i0_targets
    jobs,           \* the submitted futures, by (chunki_states, chunki_points)
    submitted,      \* the keys passed to client.submit, in order
    results,        \* the results dict filled by the wait loop
    dataset,        \* the returned Dataset's data_vars
    run_raised,     \* the exception the call raised, "no" for none
    out_of_order,   \* a job ended while one submitted before it was pending
    \* the algorithm's chunk store
    algo_chunk_store,   \* algo._chunk_store: chunk key -> stored data
    chunk_store,        \* the chunk store the engine took from the algorithm
    store_grid,         \* the numbers of states and targets chunks
    st_call,            \* the last call that touched the store, its arguments
    \* FarmWakesCalculation.calculate
    wk_in,          \* n_turbines, the number of wake models, urelax configured
    wk_pc,          \* the wake model, the slot oi and the statement reached
    wdeltas,        \* per slot: the wakes contributed into its deltas
    contribute_calls,   \* the calls of pwake.contribute for the wake model
    fdata_state,    \* per slot: what wrote its farm data, in which pass
    ctrl_calls,     \* per slot: the calls of farm_controller.calculate
    \* Timelines.calc_order, for one state of the chunk
    tl_n_turbines,  \* algo.n_turbines
    tl_pc,          \* the statement reached and the loop index ti
    coosx,          \* coosx[si]: wake x coordinate, source turbine x target
    order,          \* order[si]
    \* DaskEngine.run_calculation
    dk_self,        \* the engine: n_procs, chunk sizes, initialized
    dk_in,          \* the input: n_states, n_targets (0: point_data is None)
    dk_pc,          \* where the call is
    dk_saved,       \* chunk_size_states0, chunk_size_points0
    dk_chunked,     \* the dask chunk sizes the input data were given
    dk_raised,      \* the exception the call raised, "no" for none
    \* the construction of a chunk's data
    cd_in,          \* the input datasets, out_vars, the chunk's slices
    cd_out,         \* the chunk's mdata, fdata, tdata and the method called
    \* the run-time factories and the model book
    fc_cls,         \* the base class: "Engine" or "WakeModel"
    allc,           \* all_subclasses(cls): the class names, in its order
    sources,        \* the model book's models of the type: (name, model)
    fc_call,        \* the last call, with what it returned or raised
    \* the finalization of wake deltas by the partial wakes models
    fw_in,          \* the partial wakes model, the wake model, the downwind index
    fw_amb,         \* amb_res: the ambient results at the rotor points
    fw_deltas,      \* the caller's wake_deltas, as the calls leave them
    fw_results,     \* what the finalize_wakes calls so far returned
    \* one pass of an iterative algorithm over the chunks
    ps_start,       \* the chunk_store passed to the engine at the start of the pass
    ps_chunk_store, \* the passed chunk_store, as the preparations leave it
    ps_algo_store,  \* algo._chunk_store, the algorithm's chunk store
    ps_prepared,    \* the keys of the chunks whose input data was prepared
    ps_seen,        \* per chunk that ran: its entry of the algorithm store, or None
    \* DaskEngine's per-chunk wrapper _wrap_calc
    wc_in,          \* the input containers, out_vars, init_vars, what calculate returns
    wc_out,         \* what the wrapper returned or raised
    \* WindFarm
    turbines,       \* self.turbines: the index and the name of each turbine
    \* the backward trace of Timelines.get_wake_coos on one chunk
    tr_in,          \* the chunk (i0, n_states), self._dxy, max_wake_length, the points
    trace,          \* trace_p, trace_l, trace_d, trace_si and wcoosx per state of the chunk
    tr_iters,       \* the number of tracing iterations so far
    tr_pc,          \* the call is in its loop, or has returned
    \* DaskEngine.initialize
    di_self,        \* the DaskEngine: its parameters, _cluster, _client, progress bar, flag
    di_engine,      \* __global_engine_data__["engine"]: None, or the engine that is set
    di_config,      \* the dask configuration at the start and as it is now
    di_pc,          \* where the initialize call is, or how it ended
    \* Engine.loop_dims
    ld_self,        \* the engine's chunk_size_states, chunk_size_points, verbosity
    ld_dims         \* what the property loop_dims returned, once it was read

chunkVars == <<cc_self, cc_args, cc_result>>
lifeVars == <<constructed, initialized, global_engine, lc_call>>
runVars == <<run_self, run_in, run_pc, run_chunks, run_loop, jobs, submitted,
             results, dataset, run_raised, out_of_order>>
storeVars == <<algo_chunk_store, chunk_store, store_grid, st_call>>
wakesVars == <<wk_in, wk_pc, wdeltas, contribute_calls, fdata_state,
               ctrl_calls>>
orderVars == <<tl_n_turbines, tl_pc, coosx, order>>
daskVars == <<dk_self, dk_in, dk_pc, dk_saved, dk_chunked, dk_raised>>
dataVars == <<cd_in, cd_out>>
factoryVars == <<fc_cls, allc, sources, fc_call>>
finalizeVars == <<fw_in, fw_amb, fw_deltas, fw_results>>
passVars == <<ps_start, ps_chunk_store, ps_algo_store, ps_prepared,
              ps_seen>>
wrapVars == <<wc_in, wc_out>>
farmVars == <<turbines>>
traceVars == <<tr_in, trace, tr_iters, tr_pc>>
dinitVars == <<di_self, di_engine, di_config, di_pc>>
dimsVars == <<ld_self, ld_dims>>
vars == <<chunkVars, lifeVars, runVars, storeVars, wakesVars, orderVars,
          daskVars, dataVars, factoryVars, finalizeVars, passVars,
          wrapVars, farmVars, traceVars, dinitVars, dimsVars>>

\* what the actions of one part of the model leave alone
chunkFrame ==
    <<lifeVars, runVars, storeVars, wakesVars, orderVars, daskVars,
      dataVars, factoryVars, finalizeVars, passVars, wrapVars, farmVars,
      traceVars, dinitVars, dimsVars>>
lifeFrame ==
    <<chunkVars, runVars, storeVars, wakesVars, orderVars, daskVars,
      dataVars, factoryVars, finalizeVars, passVars, wrapVars, farmVars,
      traceVars, dinitVars, dimsVars>>
runFrame ==
    <<chunkVars, lifeVars, storeVars, wakesVars, orderVars, daskVars,
      dataVars, factoryVars, finalizeVars, passVars, wrapVars, farmVars,
      traceVars, dinitVars, dimsVars>>
storeFrame ==
    <<chunkVars, lifeVars, runVars, wakesVars, orderVars, daskVars,
      dataVars, factoryVars, finalizeVars, passVars, wrapVars, farmVars,
      traceVars, dinitVars, dimsVars>>
wakesFrame ==
    <<chunkVars, lifeVars, runVars, storeVars, orderVars, daskVars,
      dataVars, factoryVars, finalizeVars, passVars, wrapVars, farmVars,
      traceVars, dinitVars, dimsVars>>
orderFrame ==
    <<chunkVars, lifeVars, runVars, storeVars, wakesVars, daskVars,
      dataVars, factoryVars, finalizeVars, passVars, wrapVars, farmVars,
      traceVars, dinitVars, dimsVars>>
daskFrame ==
    <<chunkVars, lifeVars, runVars, storeVars, wakesVars, orderVars,
      dataVars, factoryVars, finalizeVars, passVars, wrapVars, farmVars,
      traceVars, dinitVars, dimsVars>>
dataFrame ==
    <<chunkVars, lifeVars, runVars, storeVars, wakesVars, orderVars,
      daskVars, factoryVars, finalizeVars, passVars, wrapVars, farmVars,
      traceVars, dinitVars, dimsVars>>
factoryFrame ==
    <<chunkVars, lifeVars, runVars, storeVars, wakesVars, orderVars,
      daskVars, dataVars, finalizeVars, passVars, wrapVars, farmVars,
      traceVars, dinitVars, dimsVars>>
finalizeFrame ==
    <<chunkVars, lifeVars, runVars, storeVars, wakesVars, orderVars,
      daskVars, dataVars, factoryVars, passVars, wrapVars, farmVars,
      traceVars, dinitVars, dimsVars>>
passFrame ==
    <<chunkVars, lifeVars, runVars, storeVars, wakesVars, orderVars,
      daskVars, dataVars, factoryVars, finalizeVars, wrapVars, farmVars,
      traceVars, dinitVars, dimsVars>>
wrapFrame ==
    <<chunkVars, lifeVars, runVars, storeVars, wakesVars, orderVars,
      daskVars, dataVars, factoryVars, finalizeVars, passVars, farmVars,
      traceVars, dinitVars, dimsVars>>
farmFrame ==
    <<chunkVars, lifeVars, runVars, storeVars, wakesVars, orderVars,
      daskVars, dataVars, factoryVars, finalizeVars, passVars, wrapVars,
      traceVars, dinitVars, dimsVars>>
traceFrame ==
    <<chunkVars, lifeVars, runVars, storeVars, wakesVars, orderVars,
      daskVars, dataVars, factoryVars, finalizeVars, passVars, wrapVars,
      farmVars, dinitVars, dimsVars>>
dinitFrame ==
    <<chunkVars, lifeVars, runVars, storeVars, wakesVars, orderVars,
      daskVars, dataVars, factoryVars, finalizeVars, passVars, wrapVars,
      farmVars, traceVars, dimsVars>>
dimsFrame ==
    <<chunkVars, lifeVars, runVars, storeVars, wakesVars, orderVars,
      daskVars, dataVars, factoryVars, finalizeVars, passVars, wrapVars,
      farmVars, traceVars, dinitVars>>

(***************************************************************************)
(* Python values                                                           *)
(***************************************************************************)
\* An optional integer: None is the empty set, the integer c is {c}.
None == {}
Some(c) == {c}
ValueOf(opt) == CHOOSE c \in opt : TRUE

Max(a, b) == IF a >= b THEN a ELSE b
Min(a, b) == IF a <= b THEN a ELSE b

\* int(a/b) for a >= 0, b > 0
IntDiv(a, b) == a \div b

RECURSIVE SumSeq(_)
SumSeq(s) == IF s = << >> THEN 0 ELSE Head(s) + SumSeq(Tail(s))

\* np.full(n, v)
Full(n, v) == [i \in 1..n |-> v]

(***************************************************************************)
(* Engine.calc_chunk_sizes                                                 *)
(***************************************************************************)

\* sizes[:extra] += 1: a slip that puts the remainder at the front
AddExtraFront(sizes, extra) ==
    [i \in 1..Len(sizes) |-> IF i <= extra THEN sizes[i] + 1 ELSE sizes[i]]

\* if extra > 0: sizes[-extra:] += 1
AddExtra(sizes, extra) ==
    IF extra > 0
    THEN [i \in 1..Len(sizes) |->
            IF i > Len(sizes) - extra THEN sizes[i] + 1 ELSE sizes[i]]
    ELSE sizes

\* the chunk size before balancing, taken as the ceiling of n_states/n_procs
default_chunk_size_states_ceil(self, n_states) ==
    IF self.chunk_size_states = None
    THEN Max(IntDiv(n_states + self.n_procs - 1, self.n_procs), 1)
    ELSE Min(n_states, ValueOf(self.chunk_size_states))

\* chunk_size_states before balancing
first_chunk_size_states(self, n_states) ==
    IF self.chunk_size_states = None
    THEN Max(IntDiv(n_states, self.n_procs), 1)
    ELSE Min(n_states, ValueOf(self.chunk_size_states))

\* an off-by-one slip in the number of states chunks
n_chunks_states_plus_one(n_states, chunk_size_states) ==
    IntDiv(n_states, chunk_size_states) + 1

\* n_chunks_states = int(n_states/chunk_size_states)
n_chunks_states_of(n_states, chunk_size_states) ==
    IntDiv(n_states, chunk_size_states)

\* n_chunks_targets = max(int(n_targets/chunk_size_targets), 1)
n_chunks_targets_of(n_targets, chunk_size_targets) ==
    Max(IntDiv(n_targets, chunk_size_targets), 1)

\* chunk_size = int(n/n_chunks); np.full; extra = n - n_chunks*chunk_size; += 1
balanced_chunk_sizes(n, n_chunks) ==
    LET chunk_size == IntDiv(n, n_chunks)
        extra == n - n_chunks * chunk_size
    IN  AddExtra(Full(n_chunks, chunk_size), extra)

\* the states part of calc_chunk_sizes
chunk_sizes_states_of(self, n_states) ==
    balanced_chunk_sizes(n_states,
        n_chunks_states_of(n_states, first_chunk_size_states(self, n_states)))

\* the targets part of calc_chunk_sizes, for n_targets > 1 and a set chunk size
chunk_sizes_targets_of(self, n_targets) ==
    balanced_chunk_sizes(n_targets,
        n_chunks_targets_of(n_targets,
            Min(n_targets, ValueOf(self.chunk_size_points))))

Raised(exc) ==
    [raised |-> exc, n_procs |-> 0,
     chunk_sizes_states |-> << >>, chunk_sizes_targets |-> << >>]

calc_chunk_sizes(self, n_states, n_targets) ==
    LET chunk_sizes_states == chunk_sizes_states_of(self, n_states)
    IN  IF SumSeq(chunk_sizes_states) # n_states
        THEN Raised("AssertionError")
        ELSE IF n_targets > 1
        THEN IF self.chunk_size_points = None
             THEN Raised("TypeError")     \* min(n_targets, None)
             ELSE LET chunk_sizes_targets == chunk_sizes_targets_of(self, n_targets)
                  IN  IF SumSeq(chunk_sizes_targets) # n_targets
                      THEN Raised("AssertionError")
                      ELSE [raised |-> "no", n_procs |-> self.n_procs,
                            chunk_sizes_states |-> chunk_sizes_states,
                            chunk_sizes_targets |-> chunk_sizes_targets]
        ELSE [raised |-> "no", n_procs |-> self.n_procs,
              chunk_sizes_states |-> chunk_sizes_states,
              chunk_sizes_targets |-> <<n_targets>>]

ChunkSizeConfigs == {None} \cup {Some(c) : c \in 1..MaxChunkSize}

EngineConfigs ==
    [n_procs : 1..MaxNProcs,
     chunk_size_states : ChunkSizeConfigs,
     chunk_size_points : ChunkSizeConfigs]

NotCalled == [n_states |-> 0, n_targets |-> 0]

InitChunks ==
    /\ cc_self \in EngineConfigs
    /\ cc_args = NotCalled
    /\ cc_result = Raised("not called")

\* a call engine.calc_chunk_sizes(n_states, n_targets)
CalcChunkSizes ==
    \E n_states \in 1..MaxNStates, n_targets \in 0..MaxNTargets :
        /\ cc_args' = [n_states |-> n_states, n_targets |-> n_targets]
        /\ cc_result' = calc_chunk_sizes(cc_self, n_states, n_targets)
        /\ UNCHANGED <<cc_self, chunkFrame>>

\* the chunk sizes are plain attributes: engine.chunk_size_states = ...
\* (cc_args and cc_result describe a call under the current attributes)
SetChunkSizes ==
    \E css \in ChunkSizeConfigs, csp \in ChunkSizeConfigs :
        /\ cc_self' = [cc_self EXCEPT !.chunk_size_states = css,
                                      !.chunk_size_points = csp]
        /\ cc_args' = NotCalled
        /\ cc_result' = Raised("not called")
        /\ UNCHANGED chunkFrame

NextChunks == CalcChunkSizes \/ SetChunkSizes

(***************************************************************************)
(* Engine life cycle: __init__, initialize, finalize, __enter__, __exit__  *)
(* and get_engine, with the module's __global_engine_data__                *)
(***************************************************************************)
MaxEngines == 4


EngineIds == 1..MaxEngines

LifeState(ini, glob, exc) ==
    [initialized |-> ini, global_engine |-> glob, raised |-> exc]

\* get_engine(error, default) when the global engine is set or default is
\* False: no engine is created
get_engine_plain(glob, error) ==
    IF glob = None /\ error THEN "ValueError" ELSE "no"

\* initialize without the test for an engine that is already set
initialize_unchecked(ini, glob, e) ==
    IF ~ini[e]
    THEN LifeState([ini EXCEPT ![e] = TRUE], Some(e), "no")
    ELSE LifeState(ini, glob, "no")

\* Engine.initialize; get_engine(error=False, default=False) returns the
\* global engine and raises nothing
initialize(ini, glob, e) ==
    IF ~ini[e]
    THEN IF glob # None
         THEN LifeState(ini, glob, "ValueError")
         ELSE LifeState([ini EXCEPT ![e] = TRUE], Some(e), "no")
    ELSE LifeState(ini, glob, "no")

\* finalize without the test of self.initialized
finalize_unguarded(ini, glob, e) ==
    LifeState([ini EXCEPT ![e] = FALSE], None, "no")

\* Engine.finalize
finalize(ini, glob, e) ==
    IF ini[e]
    THEN LifeState([ini EXCEPT ![e] = FALSE], None, "no")
    ELSE LifeState(ini, glob, "no")

Apply(op, e, st) ==
    /\ initialized' = st.initialized
    /\ global_engine' = st.global_engine
    /\ lc_call' = [op |-> op, engine |-> e, raised |-> st.raised]
    /\ UNCHANGED lifeFrame

InitLife ==
    /\ constructed = {}
    /\ initialized = [e \in EngineIds |-> FALSE]
    /\ global_engine = None
    /\ lc_call = [op |-> "none", engine |-> 0, raised |-> "no"]

\* Engine.__init__: a new object, not initialized
Construct ==
    \E e \in EngineIds \ constructed :
        /\ \A d \in EngineIds \ constructed : e <= d
        /\ constructed' = constructed \cup {e}
        /\ Apply("__init__", e, LifeState(initialized, global_engine, "no"))

Initialize ==
    \E e \in constructed :
        /\ Apply("initialize", e, initialize(initialized, global_engine, e))
        /\ UNCHANGED constructed

Finalize ==
    \E e \in constructed :
        /\ Apply("finalize", e, finalize(initialized, global_engine, e))
        /\ UNCHANGED constructed

\* with engine: ...  (entering)
Enter ==
    \E e \in constructed :
        /\ Apply("__enter__", e,
                 IF ~initialized[e]
                 THEN initialize(initialized, global_engine, e)
                 ELSE LifeState(initialized, global_engine, "no"))
        /\ UNCHANGED constructed

\* with engine: ...  (leaving)
Exit ==
    \E e \in constructed :
        /\ Apply("__exit__", e,
                 IF initialized[e]
                 THEN finalize(initialized, global_engine, e)
                 ELSE LifeState(initialized, global_engine, "no"))
        /\ UNCHANGED constructed

\* get_engine(error, default) with default False, or with an engine set
GetEngine ==
    \E error \in BOOLEAN :
        /\ Apply("get_engine", 0,
                 LifeState(initialized, global_engine,
                           get_engine_plain(global_engine, error)))
        /\ UNCHANGED constructed

\* get_engine(default=<Engine object>) with no engine set: default.initialize()
GetEngineDefaultObject ==
    \E e \in constructed :
        /\ global_engine = None
        /\ Apply("get_engine", e, initialize(initialized, global_engine, e))
        /\ UNCHANGED constructed

\* get_engine(default=True or a dict) with no engine set: Engine.new(...)
\* makes a new object, which is then initialized
GetEngineDefaultNew ==
    \E e \in EngineIds \ constructed :
        /\ \A d \in EngineIds \ constructed : e <= d
        /\ global_engine = None
        /\ constructed' = constructed \cup {e}
        /\ Apply("get_engine", e, initialize(initialized, global_engine, e))

NextLife ==
    \/ Construct
    \/ Initialize
    \/ Finalize
    \/ Enter
    \/ Exit
    \/ GetEngine
    \/ GetEngineDefaultObject
    \/ GetEngineDefaultNew

(***************************************************************************)
(* LocalClusterEngine.run_calculation: chunks are submitted as jobs to the *)
(* cluster, the jobs end in any order, the results are collected and       *)
(* combined                                                                *)
(***************************************************************************)
RunMaxNStates == 5
RunMaxNTargets == 3
RunMaxChunkSize == 2
RunMaxNProcs == 2
RunMaxJobs == 6
NTurbines == 2

\* the requested output variables
OutVars == {"WS", "TI"}

\* the state and target coordinates of the input datasets, the turbines
StateCoords(n_states) == [i \in 1..n_states |-> i - 1]
TargetCoords(n_targets) == [j \in 1..n_targets |-> j - 1]
Turbines == [j \in 1..NTurbines |-> j - 1]

\* data[i0:i1]
Slice(data, i0, i1) == SubSeq(data, i0 + 1, i1)

\* model.calculate on one chunk, for a model whose value at a state and a
\* target (turbine) depends on that state and target only: one array of
\* shape (states, targets) per output variable
calculate(mdata, cols) ==
    [v \in OutVars |->
        [a \in 1..Len(mdata) |-> [b \in 1..Len(cols) |-> <<v, mdata[a], cols[b]>>]]]

\* the data of chunk (i0_states:i1_states, i0_targets:i1_targets): mdata and
\* tdata, or for point_data None the farm data over all turbines
chunk_data(inp, i0_states, i1_states, i0_targets, i1_targets) ==
    [mdata |-> Slice(StateCoords(inp.n_states), i0_states, i1_states),
     cols |-> IF inp.n_targets = 0
              THEN Turbines
              ELSE Slice(TargetCoords(inp.n_targets), i0_targets, i1_targets)]

\* _run_on_cluster
run_on_cluster(job) == calculate(job.mdata, job.cols)

\* concatenation that puts each further array in front
ConcatPrepend(arrays) ==
    LET RECURSIVE cat(_)
        cat(k) == IF k = 0 THEN << >> ELSE arrays[k] \o cat(k - 1)
    IN  cat(Len(arrays))

\* np.concatenate(arrays, axis=0)
ConcatAxis0(arrays) ==
    LET RECURSIVE cat(_)
        cat(k) == IF k = 0 THEN << >> ELSE cat(k - 1) \o arrays[k]
    IN  cat(Len(arrays))

\* np.concatenate(arrays, axis=1)
ConcatAxis1(arrays) ==
    [a \in 1..Len(arrays[1]) |->
        ConcatAxis0([k \in 1..Len(arrays) |-> arrays[k][a]])]

\* the combination of the chunk results into the data_vars of the Dataset
combine(res, n_chunks_states, n_chunks_targets) ==
    [v \in OutVars |->
        ConcatAxis0(
            [cs \in 1..n_chunks_states |->
                IF n_chunks_targets = 1
                THEN res[<<cs - 1, 0>>][v]
                ELSE ConcatAxis1([cp \in 1..n_chunks_targets |->
                                     res[<<cs - 1, cp - 1>>][v]])])]

\* the result of some other job that has ended, as if results were taken in
\* the order of completion
result_of_any_finished(js, key) ==
    LET others == {k \in DOMAIN js : k # key /\ js[k].status = "finished"}
    IN  IF others = {}
        THEN [raised |-> IF js[key].status = "error" THEN "JobError" ELSE "no",
              value |-> run_on_cluster(js[key])]
        ELSE [raised |-> "no",
              value |-> run_on_cluster(js[CHOOSE k \in others : TRUE])]

\* a failed job's result replaced by not-a-number values, without raising
result_swallowing_errors(js, key) ==
    [raised |-> "no",
     value |-> IF js[key].status = "error"
               THEN [v \in OutVars |->
                       [a \in 1..Len(js[key].mdata) |->
                           [b \in 1..Len(js[key].cols) |-> "nan"]]]
               ELSE run_on_cluster(js[key])]

\* jobs.get(key).result(), for a job that has ended: its value, or its
\* exception raised again
result(js, key) ==
    [raised |-> IF js[key].status = "error" THEN "JobError" ELSE "no",
     value |-> run_on_cluster(js[key])]

NoDataset == [v \in {} |-> << >>]
NoJobs == [k \in {} |-> << >>]
NoChunks == [chunk_sizes_states |-> << >>, chunk_sizes_targets |-> << >>]
LoopStart == [chunki_states |-> 0, chunki_points |-> 0,
              i0_states |-> 0, i0_targets |-> 0]

RunChunkSizeConfigs == {None} \cup {Some(c) : c \in 1..RunMaxChunkSize}

InitRun ==
    /\ run_self \in [n_procs : 1..RunMaxNProcs,
                     chunk_size_states : RunChunkSizeConfigs,
                     chunk_size_points : RunChunkSizeConfigs,
                     initialized : BOOLEAN]
    /\ run_in \in [n_states : 1..RunMaxNStates, n_targets : 0..RunMaxNTargets]
    /\ LET sizes == calc_chunk_sizes(run_self, run_in.n_states, run_in.n_targets)
       IN  Len(sizes.chunk_sizes_states) * Len(sizes.chunk_sizes_targets)
              <= RunMaxJobs
    /\ run_pc = "start"
    /\ run_chunks = NoChunks
    /\ run_loop = LoopStart
    /\ jobs = NoJobs
    /\ submitted = << >>
    /\ results = NoJobs
    /\ dataset = NoDataset
    /\ run_raised = "no"
    /\ out_of_order = FALSE

\* the basic checks skipped
run_calculation_unchecked(self) == "no"

\* Engine.run_calculation, the basic checks: the exception raised
Engine_run_calculation(self) ==
    IF ~self.initialized THEN "ValueError" ELSE "no"

RunRaise(exc) ==
    /\ run_pc' = "raised"
    /\ run_raised' = exc

\* the basic checks of Engine.run_calculation and the chunk sizes
RunStart ==
    /\ run_pc = "start"
    /\ LET sizes == calc_chunk_sizes(run_self, run_in.n_states, run_in.n_targets)
       IN  IF Engine_run_calculation(run_self) # "no"
           THEN RunRaise(Engine_run_calculation(run_self))
                /\ UNCHANGED run_chunks
           ELSE IF sizes.raised # "no"
           THEN RunRaise(sizes.raised) /\ UNCHANGED run_chunks
           ELSE /\ run_chunks' = [chunk_sizes_states |-> sizes.chunk_sizes_states,
                                  chunk_sizes_targets |-> sizes.chunk_sizes_targets]
                /\ run_pc' = "submit"
                /\ UNCHANGED run_raised
    /\ UNCHANGED <<run_self, run_in, run_loop, jobs, submitted, results,
                   dataset, out_of_order, runFrame>>

\* one pass of the inner submit loop: the chunk's data is built and
\* scattered and the job submitted
SubmitChunk ==
    /\ run_pc = "submit"
    /\ LET cs == run_loop.chunki_states
           cp == run_loop.chunki_points
           n_chunks_states == Len(run_chunks.chunk_sizes_states)
           n_chunks_targets == Len(run_chunks.chunk_sizes_targets)
           i1_states == run_loop.i0_states + run_chunks.chunk_sizes_states[cs + 1]
           i1_targets == run_loop.i0_targets + run_chunks.chunk_sizes_targets[cp + 1]
           data == chunk_data(run_in, run_loop.i0_states, i1_states,
                              run_loop.i0_targets, i1_targets)
       IN  /\ jobs' = (<<cs, cp>> :> [mdata |-> data.mdata, cols |-> data.cols,
                                      status |-> "pending",
                                      order |-> Len(submitted)]) @@ jobs
           /\ submitted' = Append(submitted, <<cs, cp>>)
           /\ IF cp + 1 < n_chunks_targets
              THEN /\ run_loop' = [run_loop EXCEPT !.chunki_points = cp + 1,
                                                   !.i0_targets = i1_targets]
                   /\ UNCHANGED run_pc
              ELSE IF cs + 1 < n_chunks_states
              THEN /\ run_loop' = [chunki_states |-> cs + 1, chunki_points |-> 0,
                                   i0_states |-> i1_states, i0_targets |-> 0]
                   /\ UNCHANGED run_pc
              ELSE /\ run_loop' = LoopStart
                   /\ run_pc' = "wait"
    /\ UNCHANGED <<run_self, run_in, run_chunks, results, dataset, run_raised,
                   out_of_order, runFrame>>

JobEnds(key, status) ==
    /\ jobs[key].status = "pending"
    /\ jobs' = [jobs EXCEPT ![key].status = status]
    /\ out_of_order' =
         (out_of_order \/ \E k \in DOMAIN jobs :
                              /\ jobs[k].order < jobs[key].order
                              /\ jobs[k].status = "pending")
    /\ UNCHANGED <<run_self, run_in, run_pc, run_chunks, run_loop, submitted,
                   results, dataset, run_raised, runFrame>>

\* on the cluster: a job's calculation ends
JobFinishes == \E key \in DOMAIN jobs : JobEnds(key, "finished")

\* on the cluster: a job's calculation raises
JobFails == \E key \in DOMAIN jobs : JobEnds(key, "error")

\* one pass of the wait loop: r.result() blocks until the job has ended
WaitResult ==
    /\ run_pc = "wait"
    /\ LET cs == run_loop.chunki_states
           cp == run_loop.chunki_points
           key == <<cs, cp>>
           n_chunks_states == Len(run_chunks.chunk_sizes_states)
           n_chunks_targets == Len(run_chunks.chunk_sizes_targets)
       IN  /\ jobs[key].status # "pending"
           /\ LET r == result(jobs, key)
              IN  IF r.raised # "no"
                  THEN RunRaise(r.raised) /\ UNCHANGED <<results, run_loop>>
                  ELSE /\ results' = (key :> r.value) @@ results
                       /\ UNCHANGED run_raised
                       /\ IF cp + 1 < n_chunks_targets
                          THEN /\ run_loop' = [run_loop EXCEPT !.chunki_points = cp + 1]
                               /\ UNCHANGED run_pc
                          ELSE IF cs + 1 < n_chunks_states
                          THEN /\ run_loop' = [run_loop EXCEPT !.chunki_states = cs + 1,
                                                               !.chunki_points = 0]
                               /\ UNCHANGED run_pc
                          ELSE /\ run_loop' = LoopStart
                               /\ run_pc' = "combine"
    /\ UNCHANGED <<run_self, run_in, run_chunks, jobs, submitted, dataset,
                   out_of_order, runFrame>>

\* the results are combined and the Dataset returned
CombineResults ==
    /\ run_pc = "combine"
    /\ dataset' = combine(results, Len(run_chunks.chunk_sizes_states),
                          Len(run_chunks.chunk_sizes_targets))
    /\ run_pc' = "returned"
    /\ UNCHANGED <<run_self, run_in, run_chunks, run_loop, jobs, submitted,
                   results, run_raised, out_of_order, runFrame>>

NextRun ==
    \/ RunStart
    \/ SubmitChunk
    \/ JobFinishes
    \/ JobFails
    \/ WaitResult
    \/ CombineResults

RunIdle ==
    /\ run_self = [n_procs |-> 1, chunk_size_states |-> None,
                   chunk_size_points |-> None, initialized |-> FALSE]
    /\ run_in = [n_states |-> 1, n_targets |-> 0]
    /\ run_pc = "idle"
    /\ run_chunks = NoChunks
    /\ run_loop = LoopStart
    /\ jobs = NoJobs
    /\ submitted = << >>
    /\ results = NoJobs
    /\ dataset = NoDataset
    /\ run_raised = "no"
    /\ out_of_order = FALSE

(***************************************************************************)
(* The algorithm's chunk store: Engine.get_chunk_input_data hands a chunk  *)
(* its stored data, Engine.combine_results merges what the chunks return   *)
(***************************************************************************)
StoreMaxChunksStates == 2

\* the numbers of targets chunks: the one for which combine_results skips the
\* concatenation along the targets, and one for which it does not
TargetChunkCounts == {1, 2}

\* the chunk keys (chunki_states, chunki_points) of a grid of chunks
StoreKeys(n_chunks_states, n_chunks_targets) ==
    (0..(n_chunks_states - 1)) \X (0..(n_chunks_targets - 1))

\* the data stored under a key, of one pass and of a later pass
Fragments == {"earlier", "later"}

\* an empty Dict
EmptyStore == [k \in {} |-> 0]

\* algo.reset_chunk_store(): the algorithm's store afterwards
reset_chunk_store(store) == EmptyStore

\* d.update(e)
DictUpdate(d, e) ==
    [k \in DOMAIN d \cup DOMAIN e |-> IF k \in DOMAIN e THEN e[k] ELSE d[k]]

\* d after d.pop(key)
DictPop(d, key) == [k \in DOMAIN d \ {key} |-> d[k]]

\* the chunk's stored data added to the store without the reset
set_chunk_store_keeping(algo_store, cstore, key, iterative) ==
    IF iterative /\ key \in DOMAIN cstore
    THEN [algo |-> DictUpdate(algo_store, key :> cstore[key]),
          chunk_store |-> DictPop(cstore, key)]
    ELSE [algo |-> algo_store, chunk_store |-> cstore]

\* Engine.get_chunk_input_data, "set chunk store data": the algorithm's
\* store and the caller's chunk_store afterwards
set_chunk_store_data(algo_store, cstore, key, iterative) ==
    IF iterative /\ key \in DOMAIN cstore
    THEN [algo |-> DictUpdate(reset_chunk_store(algo_store), key :> cstore[key]),
          chunk_store |-> DictPop(cstore, key)]
    ELSE [algo |-> reset_chunk_store(algo_store), chunk_store |-> cstore]

\* the chunk keys in the order in which combine_results loops over them
KeysInOrder(n_chunks_states, n_chunks_targets) ==
    [n \in 1..(n_chunks_states * n_chunks_targets) |->
        <<(n - 1) \div n_chunks_targets, (n - 1) % n_chunks_targets>>]

\* algo._chunk_store.update(cstore) for the chunks in loop order
UpdateAll(algo_store, res, keys) ==
    LET RECURSIVE upd(_)
        upd(n) == IF n = 0 THEN algo_store
                  ELSE DictUpdate(upd(n - 1), res[keys[n]].cstore)
    IN  upd(Len(keys))

\* Engine.combine_results: the algorithm's store afterwards. The stores
\* returned by the chunks are merged inside the loop over those out_vars
\* that are found in the results of chunk (0, 0)
combine_chunk_store(algo_store, res, out_vars, n_chunks_states, n_chunks_targets, iterative, final_iteration) ==
    LET found == {n \in 1..Len(out_vars) : out_vars[n] \in res[<<0, 0>>].r}
        merged == IF iterative /\ found # {}
                  THEN UpdateAll(algo_store, res,
                                 KeysInOrder(n_chunks_states, n_chunks_targets))
                  ELSE algo_store
    IN  IF ~iterative \/ final_iteration
        THEN reset_chunk_store(merged)
        ELSE merged

\* the out_vars lists, and the variables held by the results of a model
OutVarLists == {<< >>, <<"WS">>, <<"WS", "TI">>}
ResultVars == {{"TI"}, {"WS", "TI"}}

\* the results of the chunk calculations: each chunk returns the variables
\* r and its store, which is empty or holds data under the chunk's key
ChunkResults(grid, r, fragment) ==
    [k \in StoreKeys(grid.n_chunks_states, grid.n_chunks_targets) |->
        [r |-> r,
         cstore |-> IF fragment = "none" THEN EmptyStore ELSE (k :> fragment)]]

NoStoreCall == [op |-> "none", key |-> <<0, 0>>, iterative |-> FALSE,
                final_iteration |-> FALSE, fragment |-> "none"]

InitStore ==
    /\ store_grid \in [n_chunks_states : 1..StoreMaxChunksStates,
                       n_chunks_targets : TargetChunkCounts]
    /\ algo_chunk_store = EmptyStore
    /\ chunk_store = EmptyStore
    /\ st_call = NoStoreCall

\* the engine takes the chunk store from the algorithm, to pass it to
\* get_chunk_input_data for each chunk
TakeChunkStore ==
    /\ chunk_store' = algo_chunk_store
    /\ st_call' = [NoStoreCall EXCEPT !.op = "take"]
    /\ UNCHANGED <<algo_chunk_store, store_grid, storeFrame>>

GetChunkInputData ==
    \E key \in StoreKeys(store_grid.n_chunks_states, store_grid.n_chunks_targets),
       iterative \in BOOLEAN :
        LET after == set_chunk_store_data(algo_chunk_store, chunk_store,
                                          key, iterative)
        IN  /\ algo_chunk_store' = after.algo
            /\ chunk_store' = after.chunk_store
            /\ st_call' = [NoStoreCall EXCEPT !.op = "get_chunk_input_data",
                                              !.key = key,
                                              !.iterative = iterative]
            /\ UNCHANGED <<store_grid, storeFrame>>

EngineCombineResults ==
    \E r \in ResultVars, fragment \in {"none"} \cup Fragments,
       out_vars \in OutVarLists, iterative \in BOOLEAN,
       final_iteration \in BOOLEAN :
        /\ algo_chunk_store' =
              combine_chunk_store(algo_chunk_store,
                                  ChunkResults(store_grid, r, fragment),
                                  out_vars, store_grid.n_chunks_states,
                                  store_grid.n_chunks_targets,
                                  iterative, final_iteration)
        /\ st_call' = [op |-> "combine_results", key |-> <<0, 0>>,
                       iterative |-> iterative,
                       final_iteration |-> final_iteration,
                       fragment |-> fragment]
        /\ UNCHANGED <<chunk_store, store_grid, storeFrame>>

\* LocalClusterEngine.run_calculation (and with it SlurmClusterEngine) and
\* DaskEngine.run_calculation, from the call to the returned Dataset: no
\* statement of them reads or writes the algorithm's chunk store
ClusterRunCalculation ==
    \E engine \in {"DaskEngine", "LocalClusterEngine", "SlurmClusterEngine"},
       final_iteration \in BOOLEAN :
        /\ st_call' = [NoStoreCall EXCEPT !.op = engine,
                                          !.final_iteration = final_iteration]
        /\ UNCHANGED <<algo_chunk_store, chunk_store, store_grid, storeFrame>>

NextStore ==
    \/ TakeChunkStore
    \/ GetChunkInputData
    \/ EngineCombineResults
    \/ ClusterRunCalculation

StoreIdle ==
    /\ store_grid = [n_chunks_states |-> 1, n_chunks_targets |-> 1]
    /\ algo_chunk_store = EmptyStore
    /\ chunk_store = EmptyStore
    /\ st_call = NoStoreCall

(***************************************************************************)
(* FarmWakesCalculation.calculate on one chunk: for each wake model, the   *)
(* slots of the downwind order are visited; a slot's wake is contributed   *)
(* into the deltas at the other slots and the slot is evaluated            *)
(***************************************************************************)
WakesMaxTurbines == 3
MaxWakeModels == 2

\* the downwind slots, range(n_turbines)
Slots(n_turbines) == 0..(n_turbines - 1)

\* pwake.new_wake_deltas: nothing contributed at any slot
new_wake_deltas(n_turbines) == [t \in Slots(n_turbines) |-> << >>]

\* pwake.contribute(algo, mdata, fdata, tdata, oi, wdelta, wmodel): the wake
\* of the slot oi, computed from its farm data as it is now, is added to the
\* deltas at the slots of tdata and wdelta (slices of wdeltas)
contribute(deltas, fdata, targets, oi) ==
    [t \in DOMAIN deltas |->
        IF t \in targets
        THEN Append(deltas[t], [source |-> oi, source_state |-> fdata[oi]])
        ELSE deltas[t]]

\* np.s_[:, :oi] as a set of slots
SlotsBefore(oi) == 0..(oi - 1)

\* the slice [:, oi:], which holds the slot oi itself
SlotsFrom(oi, n_turbines) == oi..(n_turbines - 1)

\* the slice [:, oi+2:], which leaves out the slot that follows oi
SlotsBeyond(oi, n_turbines) == (oi + 2)..(n_turbines - 1)

\* np.s_[:, oi+1:] as a set of slots
SlotsAfter(oi, n_turbines) == (oi + 1)..(n_turbines - 1)

\* the pass of the loop over the slots that follows the evaluation of oi
WakesAfterEvaluate(pc, inp) ==
    IF pc.oi + 1 < inp.n_turbines
    THEN [pc EXCEPT !.oi = pc.oi + 1, !.at = "contribute_upstream"]
    ELSE IF pc.wmodel < inp.n_wake_models
    THEN [wmodel |-> pc.wmodel + 1, oi |-> 0, at |-> "new_wake_deltas"]
    ELSE [pc EXCEPT !.at = "return"]

InitWakes ==
    /\ wk_in \in [n_turbines : 1..WakesMaxTurbines,
                  n_wake_models : 0..MaxWakeModels,
                  urelax : BOOLEAN]
    /\ wk_pc = [wmodel |-> 0, oi |-> 0, at |-> "start"]
    /\ wdeltas = new_wake_deltas(wk_in.n_turbines)
    /\ contribute_calls = 0
    /\ fdata_state = [oi \in Slots(wk_in.n_turbines) |->
                         [value |-> "input", pass |-> 0]]
    /\ ctrl_calls = [oi \in Slots(wk_in.n_turbines) |-> 0]

\* the wake points are generated; the loop over the wake models is entered
WakesStart ==
    /\ wk_pc.at = "start"
    /\ wk_pc' = IF wk_in.n_wake_models > 0
                THEN [wmodel |-> 1, oi |-> 0, at |-> "new_wake_deltas"]
                ELSE [wk_pc EXCEPT !.at = "return"]
    /\ UNCHANGED <<wk_in, wdeltas, contribute_calls, fdata_state, ctrl_calls,
                   wakesFrame>>

NewWakeDeltas ==
    /\ wk_pc.at = "new_wake_deltas"
    /\ wdeltas' = new_wake_deltas(wk_in.n_turbines)
    /\ contribute_calls' = 0
    /\ wk_pc' = [wk_pc EXCEPT !.at = "contribute_upstream"]
    /\ UNCHANGED <<wk_in, fdata_state, ctrl_calls, wakesFrame>>

\* if oi > 0: contribute with the slice [:, :oi]
ContributeUpstream ==
    /\ wk_pc.at = "contribute_upstream"
    /\ wdeltas' = IF wk_pc.oi > 0
                  THEN contribute(wdeltas, fdata_state,
                                  SlotsBefore(wk_pc.oi), wk_pc.oi)
                  ELSE wdeltas
    /\ contribute_calls' = IF wk_pc.oi > 0
                           THEN contribute_calls + 1
                           ELSE contribute_calls
    /\ wk_pc' = [wk_pc EXCEPT !.at = "contribute_downstream"]
    /\ UNCHANGED <<wk_in, fdata_state, ctrl_calls, wakesFrame>>

\* if oi < n_turbines - 1: contribute with the slice [:, oi+1:]
ContributeDownstream ==
    /\ wk_pc.at = "contribute_downstream"
    /\ wdeltas' = IF wk_pc.oi < wk_in.n_turbines - 1
                  THEN contribute(wdeltas, fdata_state,
                                  SlotsAfter(wk_pc.oi, wk_in.n_turbines),
                                  wk_pc.oi)
                  ELSE wdeltas
    /\ contribute_calls' = IF wk_pc.oi < wk_in.n_turbines - 1
                           THEN contribute_calls + 1
                           ELSE contribute_calls
    /\ wk_pc' = [wk_pc EXCEPT !.at = "evaluate_results"]
    /\ UNCHANGED <<wk_in, fdata_state, ctrl_calls, wakesFrame>>

\* _evaluate: pwake.evaluate_results writes the waked results of slot oi
EvaluateResults ==
    /\ wk_pc.at = "evaluate_results"
    /\ fdata_state' = [fdata_state EXCEPT ![wk_pc.oi] =
                          [value |-> "wake_results", pass |-> wk_pc.wmodel]]
    /\ wk_pc' = [wk_pc EXCEPT !.at = "farm_controller"]
    /\ UNCHANGED <<wk_in, wdeltas, contribute_calls, ctrl_calls, wakesFrame>>

\* _evaluate: farm_controller.calculate(pre_rotor=False, downwind_index=oi)
\* and fdata.update(res)
FarmControllerCalculate ==
    /\ wk_pc.at = "farm_controller"
    /\ ctrl_calls' = [ctrl_calls EXCEPT ![wk_pc.oi] = @ + 1]
    /\ fdata_state' = [fdata_state EXCEPT ![wk_pc.oi] =
                          [value |-> "controller", pass |-> wk_pc.wmodel]]
    /\ wk_pc' = IF wk_in.urelax
                THEN [wk_pc EXCEPT !.at = "urelax"]
                ELSE WakesAfterEvaluate(wk_pc, wk_in)
    /\ UNCHANGED <<wk_in, wdeltas, contribute_calls, wakesFrame>>

\* _evaluate: the under-relaxed values are written to fdata[v][:, oi]
URelaxCalculate ==
    /\ wk_pc.at = "urelax"
    /\ fdata_state' = [fdata_state EXCEPT ![wk_pc.oi] =
                          [value |-> "blended", pass |-> wk_pc.wmodel]]
    /\ wk_pc' = WakesAfterEvaluate(wk_pc, wk_in)
    /\ UNCHANGED <<wk_in, wdeltas, contribute_calls, ctrl_calls, wakesFrame>>

\* return {v: fdata[v] for v in self.output_farm_vars(algo)}
WakesReturn ==
    /\ wk_pc.at = "return"
    /\ wk_pc' = [wk_pc EXCEPT !.at = "returned"]
    /\ UNCHANGED <<wk_in, wdeltas, contribute_calls, fdata_state, ctrl_calls,
                   wakesFrame>>

NextWakes ==
    \/ WakesStart
    \/ NewWakeDeltas
    \/ ContributeUpstream
    \/ ContributeDownstream
    \/ EvaluateResults
    \/ FarmControllerCalculate
    \/ URelaxCalculate
    \/ WakesReturn

WakesIdle ==
    /\ wk_in = [n_turbines |-> 1, n_wake_models |-> 0, urelax |-> FALSE]
    /\ wk_pc = [wmodel |-> 0, oi |-> 0, at |-> "idle"]
    /\ wdeltas = new_wake_deltas(1)
    /\ contribute_calls = 0
    /\ fdata_state = [oi \in Slots(1) |-> [value |-> "input", pass |-> 0]]
    /\ ctrl_calls = [oi \in Slots(1) |-> 0]

(***************************************************************************)
(* Timelines.calc_order: the wake x coordinates of all turbines in the     *)
(* wake frame of each turbine are computed, np.lexsort orders the turbines *)
(***************************************************************************)
OrderMaxTurbines == 3

\* the values of a wake x coordinate that the model tells apart
WakeCoordinates == {0, 1}

TurbineIndices(n_turbines) == 0..(n_turbines - 1)

\* np.zeros((n_turbines, n_turbines)) and np.zeros(n_turbines)
ZeroMatrix(n_turbines) ==
    [ti \in TurbineIndices(n_turbines) |->
        [tj \in TurbineIndices(n_turbines) |-> 0]]
ZeroOrder(n_turbines) == [p \in 1..n_turbines |-> 0]

\* the order of np.lexsort on the columns a and b of keys: the last key is
\* the primary one
KeyBefore(keys, a, b) ==
    \E k \in DOMAIN keys :
        /\ keys[k][a] < keys[k][b]
        /\ \A k2 \in DOMAIN keys : k2 > k => keys[k2][a] = keys[k2][b]

\* where column j goes in a sorted sequence of lower indices: behind every
\* column that is not behind it, so that the sort is stable
Position(sorted, j, keys) ==
    Cardinality({p \in 1..Len(sorted) : ~KeyBefore(keys, j, sorted[p])})

\* j overwrites the element at pos
InsertOver(sorted, j, pos) ==
    SubSeq(sorted, 1, pos - 1) \o <<j>> \o SubSeq(sorted, pos + 1, Len(sorted))

\* j inserted behind the first pos elements
InsertAt(sorted, j, pos) ==
    SubSeq(sorted, 1, pos) \o <<j>> \o SubSeq(sorted, pos + 1, Len(sorted))

\* np.lexsort(keys): the indices of the columns in sorted order
lexsort(keys, n) ==
    LET RECURSIVE sort(_)
        sort(j) == IF j < 0 THEN << >>
                   ELSE LET sorted == sort(j - 1)
                        IN  InsertAt(sorted, j, Position(sorted, j, keys))
    IN  sort(n - 1)

InitOrder ==
    /\ tl_n_turbines \in 1..OrderMaxTurbines
    /\ tl_pc = [at |-> "get_wake_coos", ti |-> 0]
    /\ coosx = ZeroMatrix(tl_n_turbines)
    /\ order = ZeroOrder(tl_n_turbines)

\* coosx[:, ti, :] = self.get_wake_coos(...)[..., 0]: the x coordinates of
\* all turbines in the wake frame of turbine ti, of any values
GetWakeCoos ==
    /\ tl_pc.at = "get_wake_coos"
    /\ \E row \in [TurbineIndices(tl_n_turbines) -> WakeCoordinates] :
          coosx' = [coosx EXCEPT ![tl_pc.ti] = row]
    /\ tl_pc' = IF tl_pc.ti + 1 < tl_n_turbines
                THEN [tl_pc EXCEPT !.ti = tl_pc.ti + 1]
                ELSE [at |-> "lexsort", ti |-> 0]
    /\ UNCHANGED <<tl_n_turbines, order, orderFrame>>

\* order[si] = np.lexsort(keys=coosx[si]), and the return
LexsortOrder ==
    /\ tl_pc.at = "lexsort"
    /\ order' = lexsort(coosx, tl_n_turbines)
    /\ tl_pc' = [tl_pc EXCEPT !.at = "returned"]
    /\ UNCHANGED <<tl_n_turbines, coosx, orderFrame>>

NextOrder ==
    \/ GetWakeCoos
    \/ LexsortOrder

OrderIdle ==
    /\ tl_n_turbines = 1
    /\ tl_pc = [at |-> "idle", ti |-> 0]
    /\ coosx = ZeroMatrix(1)
    /\ order = ZeroOrder(1)

(***************************************************************************)
(* DaskEngine.run_calculation: the basic checks, the default chunk sizes,  *)
(* the chunking of the input data, the computation, the reset              *)
(***************************************************************************)
NoSavedSizes == [chunk_size_states0 |-> None, chunk_size_points0 |-> None]
NotChunked == [states |-> 0, targets |-> 0]

\* "find chunk sizes, if not given": the engine afterwards
default_chunk_sizes(self, inp) ==
    [self EXCEPT
        !.chunk_size_states =
            IF self.chunk_size_states = None
            THEN Some(Max(IntDiv(inp.n_states, self.n_procs), 1))
            ELSE @,
        !.chunk_size_points =
            IF self.chunk_size_points = None /\ inp.n_targets > 0
            THEN Some(Max(IntDiv(inp.n_targets, self.n_procs), 1))
            ELSE @]

\* DaskEngine.chunk_data on the input datasets: the dask chunk sizes
dask_chunk_data(self, inp) ==
    [states |-> Min(inp.n_states, ValueOf(self.chunk_size_states)),
     targets |-> IF inp.n_targets > 0
                 THEN Min(inp.n_targets, ValueOf(self.chunk_size_points))
                 ELSE 0]

InitDask ==
    /\ dk_self \in [n_procs : 1..RunMaxNProcs,
                    chunk_size_states : RunChunkSizeConfigs,
                    chunk_size_points : RunChunkSizeConfigs,
                    initialized : BOOLEAN]
    /\ dk_in \in [n_states : 1..RunMaxNStates, n_targets : 0..RunMaxNTargets]
    /\ dk_pc = "start"
    /\ dk_saved = NoSavedSizes
    /\ dk_chunked = NotChunked
    /\ dk_raised = "no"

\* the subset selection and the basic checks of Engine.run_calculation
DaskRunStart ==
    /\ dk_pc = "start"
    /\ IF Engine_run_calculation(dk_self) # "no"
       THEN /\ dk_pc' = "raised"
            /\ dk_raised' = Engine_run_calculation(dk_self)
       ELSE /\ dk_pc' = "find_chunk_sizes"
            /\ UNCHANGED dk_raised
    /\ UNCHANGED <<dk_self, dk_in, dk_saved, dk_chunked, daskFrame>>

\* the chunk sizes are saved and, if not given, set
DaskFindChunkSizes ==
    /\ dk_pc = "find_chunk_sizes"
    /\ dk_saved' = [chunk_size_states0 |-> dk_self.chunk_size_states,
                    chunk_size_points0 |-> dk_self.chunk_size_points]
    /\ dk_self' = default_chunk_sizes(dk_self, dk_in)
    /\ dk_pc' = "chunk_data"
    /\ UNCHANGED <<dk_in, dk_chunked, dk_raised, daskFrame>>

\* the input datasets are chunked and persisted, the wrapper's arguments set
DaskChunkData ==
    /\ dk_pc = "chunk_data"
    /\ dk_chunked' = dask_chunk_data(dk_self, dk_in)
    /\ dk_pc' = "compute"
    /\ UNCHANGED <<dk_self, dk_in, dk_saved, dk_raised, daskFrame>>

\* xr.apply_ufunc(_wrap_calc, ...) is computed
DaskCompute ==
    /\ dk_pc = "compute"
    /\ dk_pc' = "reset"
    /\ UNCHANGED <<dk_self, dk_in, dk_saved, dk_chunked, dk_raised, daskFrame>>

\* the computation raises, e.g. _wrap_calc for missing results
DaskComputeRaises ==
    /\ dk_pc = "compute"
    /\ dk_pc' = "raised"
    /\ dk_raised' = "CalculationError"
    /\ UNCHANGED <<dk_self, dk_in, dk_saved, dk_chunked, daskFrame>>

\* the chunk sizes are reset and the results returned
DaskResetReturn ==
    /\ dk_pc = "reset"
    /\ dk_self' = [dk_self EXCEPT
                      !.chunk_size_states = dk_saved.chunk_size_states0,
                      !.chunk_size_points = dk_saved.chunk_size_points0]
    /\ dk_pc' = "returned"
    /\ UNCHANGED <<dk_in, dk_saved, dk_chunked, dk_raised, daskFrame>>

DaskIdle ==
    /\ dk_self = [n_procs |-> 1, chunk_size_states |-> None,
                  chunk_size_points |-> None, initialized |-> FALSE]
    /\ dk_in = [n_states |-> 1, n_targets |-> 0]
    /\ dk_pc = "idle"
    /\ dk_saved = NoSavedSizes
    /\ dk_chunked = NotChunked
    /\ dk_raised = "no"

\* run_calculation of LocalClusterEngine or of DaskEngine
NextRunCalculation ==
    \/ RunStart
    \/ SubmitChunk
    \/ JobFinishes
    \/ JobFails
    \/ WaitResult
    \/ CombineResults
    \/ DaskRunStart
    \/ DaskFindChunkSizes
    \/ DaskChunkData
    \/ DaskCompute
    \/ DaskComputeRaises
    \/ DaskResetReturn

(***************************************************************************)
(* The construction of a chunk's data, in Engine.get_chunk_input_data and  *)
(* in the submit loop of LocalClusterEngine.run_calculation                *)
(***************************************************************************)
DataMaxNStates == 2
DataMaxNTargets == 2

\* a variable of farm_data, of shape (n_states, n_turbines)
FarmArray(v, n_states) ==
    [a \in 1..n_states |-> [b \in 1..NTurbines |-> <<v, a - 1, b - 1>>]]

\* a variable of point_data, of shape (n_states, n_targets, 1)
PointArray(v, n_states, n_targets) ==
    [a \in 1..n_states |->
        [b \in 1..n_targets |-> [c \in 1..1 |-> <<v, a - 1, b - 1>>]]]

\* np.nan as an entry of an array of such variables
NaN == <<"nan", 0, 0>>

\* np.full((n, m), np.nan) and np.full((n, m, 1), np.nan)
FullNaN2(n, m) == [a \in 1..n |-> [b \in 1..m |-> NaN]]
FullNaN3(n, m) == [a \in 1..n |-> [b \in 1..m |-> [c \in 1..1 |-> NaN]]]

\* the datasets with the variables of vs
FarmDataset(vs, n_states) == [v \in vs |-> FarmArray(v, n_states)]
PointDataset(vs, n_states, n_targets) ==
    [v \in vs |-> PointArray(v, n_states, n_targets)]

\* the state coordinate of model_data
ModelDataset(n_states) == [v \in {"state"} |-> StateCoords(n_states)]

\* array[s_states] and array[s_states, s_targets]
SliceStates(array, i0, i1) == Slice(array, i0, i1)
SliceStatesTargets(array, i0, i1, j0, j1) ==
    [a \in 1..(i1 - i0) |-> Slice(array[i0 + a], j0, j1)]

\* every output variable is given to the callback as missing
all_out_vars(out_vars, data) == out_vars

\* set(out_vars).difference(data.keys())
missing_out_vars(out_vars, data) == out_vars \ DOMAIN data

\* the callback of the farm data: missing output variables are filled
cb_fdata(data, out_vars, n_states) ==
    [v \in DOMAIN data \cup missing_out_vars(out_vars, data) |->
        IF v \in missing_out_vars(out_vars, data)
        THEN FullNaN2(n_states, NTurbines)
        ELSE data[v]]

\* the callback of the target data
cb_tdata(data, out_vars, n_states, n_targets) ==
    [v \in DOMAIN data \cup missing_out_vars(out_vars, data) |->
        IF v \in missing_out_vars(out_vars, data)
        THEN FullNaN3(n_states, n_targets)
        ELSE data[v]]

\* Data.from_dataset without the callback: the variables of the dataset,
\* sliced along the states and, for point data, along the targets
from_dataset_states(ds, i0, i1) ==
    [v \in DOMAIN ds |-> SliceStates(ds[v], i0, i1)]
from_dataset_states_targets(ds, i0, i1, j0, j1) ==
    [v \in DOMAIN ds |-> SliceStatesTargets(ds[v], i0, i1, j0, j1)]

NoData == [v \in {} |-> << >>]

\* mdata, fdata and tdata of the chunk; tdata is None without point data
create_chunk_data(inp) ==
    LET i0 == inp.states_i0_i1[1]
        i1 == inp.states_i0_i1[2]
        j0 == inp.targets_i0_i1[1]
        j1 == inp.targets_i0_i1[2]
        farm == from_dataset_states(
                    FarmDataset(inp.farm_vars, inp.n_states), i0, i1)
        point == from_dataset_states_targets(
                    PointDataset(inp.point_vars, inp.n_states, inp.n_targets),
                    i0, i1, j0, j1)
    IN  [mdata |-> from_dataset_states(ModelDataset(inp.n_states), i0, i1),
         fdata |-> IF inp.n_targets = 0
                   THEN cb_fdata(farm, inp.out_vars, i1 - i0)
                   ELSE farm,
         tdata |-> IF inp.n_targets = 0
                   THEN None
                   ELSE Some(cb_tdata(point, inp.out_vars, i1 - i0, j1 - j0))]

\* the slices (i0, i1) of a chunk along an axis of extent n
ChunkSlices(n) == {s \in (0..n) \X (0..n) : s[1] < s[2]}

InitData ==
    /\ cd_in \in [n_states : 1..DataMaxNStates,
                  n_targets : 0..DataMaxNTargets,
                  farm_vars : SUBSET OutVars,
                  point_vars : SUBSET OutVars,
                  out_vars : SUBSET OutVars,
                  states_i0_i1 : ChunkSlices(DataMaxNStates),
                  targets_i0_i1 : ChunkSlices(DataMaxNTargets) \cup {<<0, 0>>}]
    /\ cd_in.states_i0_i1 \in ChunkSlices(cd_in.n_states)
    /\ IF cd_in.n_targets = 0
       THEN cd_in.targets_i0_i1 = <<0, 0>> /\ cd_in.point_vars = {}
       ELSE cd_in.targets_i0_i1 \in ChunkSlices(cd_in.n_targets)
    /\ cd_out = [by |-> "none", mdata |-> NoData, fdata |-> NoData,
                 tdata |-> None]

\* Engine.get_chunk_input_data: create mdata, fdata, tdata
GetChunkData ==
    /\ cd_out.by = "none"
    /\ cd_out' = [by |-> "Engine.get_chunk_input_data"]
                    @@ create_chunk_data(cd_in)
    /\ UNCHANGED <<cd_in, dataFrame>>

\* LocalClusterEngine.run_calculation, one pass of the submit loop: create
\* mdata, fdata, tdata
SubmitLoopChunkData ==
    /\ cd_out.by = "none"
    /\ cd_out' = [by |-> "LocalClusterEngine.run_calculation"]
                    @@ create_chunk_data(cd_in)
    /\ UNCHANGED <<cd_in, dataFrame>>

NextData ==
    \/ GetChunkData
    \/ SubmitLoopChunkData

DataIdle ==
    /\ cd_in = [n_states |-> 1, n_targets |-> 0, farm_vars |-> {},
                point_vars |-> {}, out_vars |-> {},
                states_i0_i1 |-> <<0, 1>>, targets_i0_i1 |-> <<0, 0>>]
    /\ cd_out = [by |-> "idle", mdata |-> NoData, fdata |-> NoData,
                 tdata |-> None]

(***************************************************************************)
(* The run-time factories Engine.new and WakeModel.new, and ModelBook.get  *)
(***************************************************************************)
FactoryMaxNames == 3

\* class names and model names, each number standing for a name by its
\* place in the order of the strings
Names == 1..FactoryMaxNames

\* the sequences of distinct names
NameLists ==
    {l \in UNION {[1..n -> Names] : n \in 0..FactoryMaxNames} :
        \A i, j \in DOMAIN l : i # j => l[i] # l[j]}

\* the list as it is
unsorted(names) == names

\* sorted(names)
sorted(names) ==
    LET RECURSIVE insert(_, _)
        insert(l, x) == IF l = << >> THEN <<x>>
                        ELSE IF x < Head(l) THEN <<x>> \o l
                        ELSE <<Head(l)>> \o insert(Tail(l), x)
        RECURSIVE sort(_)
        sort(n) == IF n = 0 THEN << >> ELSE insert(sort(n - 1), names[n])
    IN  sort(Len(names))

\* the names under which models are looked up in the model book
ModelNames == {1, 2}

NoMessage == [requested |-> None, available |-> << >>]

\* cls.new(type, *args, **kwargs) of Engine and of WakeModel: None for None,
\* an instance of the first subclass of that name, or KeyError with the
\* requested type and the sorted names of the subclasses
new(subclasses, type) ==
    IF type = None
    THEN [raised |-> "no", value |-> None, message |-> NoMessage]
    ELSE LET matches == {i \in 1..Len(subclasses) :
                            subclasses[i] = ValueOf(type)}
         IN  IF matches # {}
             THEN [raised |-> "no",
                   value |-> Some(subclasses[CHOOSE i \in matches :
                                     \A j \in matches : i <= j]),
                   message |-> NoMessage]
             ELSE [raised |-> "KeyError", value |-> None,
                   message |-> [requested |-> type,
                                available |-> sorted(subclasses)]]

\* list(self.sources[model_type].keys())
keys(srcs) == [i \in 1..Len(srcs) |-> srcs[i].name]

\* ModelBook.get(model_type, name, class_name): what it returns or raises,
\* and the models of the type afterwards
get(srcs, subclasses, name, class_name) ==
    LET at == {i \in 1..Len(srcs) : srcs[i].name = name}
        made == new(subclasses, class_name)
    IN  IF at = {}
        THEN IF class_name = None
             THEN [raised |-> "KeyError", value |-> None,
                   message |-> [requested |-> Some(name),
                                available |-> sorted(keys(srcs))],
                   sources |-> srcs]
             ELSE IF made.raised # "no"
             THEN made @@ [sources |-> srcs]
             ELSE made @@ [sources |->
                             Append(srcs, [name |-> name, model |-> made.value])]
        ELSE [raised |-> "no", value |-> srcs[CHOOSE i \in at : TRUE].model,
              message |-> NoMessage, sources |-> srcs]

NoFactoryCall == [op |-> "none", requested |-> None, class_name |-> None,
                  registered |-> FALSE, raised |-> "no", value |-> None,
                  message |-> NoMessage]

InitFactory ==
    /\ fc_cls \in {"Engine", "WakeModel"}
    /\ allc \in NameLists
    /\ sources = << >>
    /\ fc_call = NoFactoryCall

EngineNew ==
    /\ fc_cls = "Engine"
    /\ \E type \in {None} \cup {Some(n) : n \in Names} :
          fc_call' = [op |-> "Engine.new", requested |-> type,
                      class_name |-> None, registered |-> FALSE]
                        @@ new(allc, type)
    /\ UNCHANGED <<fc_cls, allc, sources, factoryFrame>>

WakeModelNew ==
    /\ fc_cls = "WakeModel"
    /\ \E type \in {None} \cup {Some(n) : n \in Names} :
          fc_call' = [op |-> "WakeModel.new", requested |-> type,
                      class_name |-> None, registered |-> FALSE]
                        @@ new(allc, type)
    /\ UNCHANGED <<fc_cls, allc, sources, factoryFrame>>

\* ModelBook.get for the model type whose base class is WakeModel
ModelBookGet ==
    /\ fc_cls = "WakeModel"
    /\ \E name \in ModelNames,
          class_name \in {None} \cup {Some(n) : n \in Names} :
          LET res == get(sources, allc, name, class_name)
          IN  /\ fc_call' = [op |-> "ModelBook.get", requested |-> Some(name),
                             class_name |-> class_name,
                             registered |-> (name \in {sources[i].name :
                                                i \in 1..Len(sources)}),
                             raised |-> res.raised, value |-> res.value,
                             message |-> res.message]
              /\ sources' = res.sources
    /\ UNCHANGED <<fc_cls, allc, factoryFrame>>

NextFactory ==
    \/ EngineNew
    \/ WakeModelNew
    \/ ModelBookGet

FactoryIdle ==
    /\ fc_cls = "Engine"
    /\ allc = << >>
    /\ sources = << >>
    /\ fc_call = [NoFactoryCall EXCEPT !.op = "idle"]

(***************************************************************************)
(* PartialWakesModel.finalize_wakes of RotorPoints and PartialSegregated:  *)
(* the wake deltas at one downwind index are finalized by the wake model   *)
(***************************************************************************)
FinalizeMaxTurbines == 2
FinalizeMaxDelta == 2
FinalizeMaxCalls == 2

\* one state, two rotor points, one variable
FinalizeStates == {1}
RotorPointIndices == {1, 2}
WakeVars == {"WS"}
FinalizeTurbines == 1..FinalizeMaxTurbines

\* arrays of shape (n_states, n_turbines, n_rotor_points)
DeltaArrays ==
    [FinalizeStates -> [FinalizeTurbines ->
        [RotorPointIndices -> 0..FinalizeMaxDelta]]]
AmbientArrays ==
    {[s \in FinalizeStates |-> [t \in FinalizeTurbines |->
        [p \in RotorPointIndices |-> a]]] : a \in {1, 2}}

\* rotor.rotor_point_weights(), whole numbers standing for the weights
gweights == [p \in RotorPointIndices |-> p]

\* d[:, downwind_index, None]: an array of shape (n_states, 1, n_rpoints)
\* that shares the memory of d
view(d, downwind_index) ==
    [shared |-> TRUE,
     data |-> [s \in FinalizeStates |-> <<d[s][downwind_index]>>]]

\* the array itself, no copy taken
no_copy(a) == a

\* a.copy(): the same values in memory of their own
ndarray_copy(a) == [shared |-> FALSE, data |-> a.data]

\* np.einsum('sp,p->s', d, w)
einsum_sp_p(d, w) ==
    LET RECURSIVE sum(_, _)
        sum(s, n) == IF n = 0 THEN 0 ELSE sum(s, n - 1) + d[s][n] * w[n]
    IN  [s \in FinalizeStates |-> sum(s, Cardinality(RotorPointIndices))]

\* np.zeros((n_states, 1, n_rotor_points)), then wdel[v][:] = avg[:, None, None]
broadcast(avg) ==
    [shared |-> FALSE,
     data |-> [s \in FinalizeStates |->
                 <<[p \in RotorPointIndices |-> avg[s]]>>]]

\* wmodel.finalize_wake_deltas(algo, mdata, fdata, amb_results, wake_deltas):
\* modifies wake_deltas on the fly. The base class does nothing; a wake
\* model transforms the raw delta to the physical variable in place
finalize_wake_deltas(wmodel, ares, wdel) ==
    IF wmodel = "WakeModel"
    THEN wdel
    ELSE [v \in DOMAIN wdel |->
            [wdel[v] EXCEPT !.data =
                [s \in FinalizeStates |->
                    <<[p \in RotorPointIndices |->
                         ares[v].data[s][1][p] * wdel[v].data[s][1][p]]>>]]]

\* the caller's array after the array a, taken at the downwind index, was
\* modified: the values are the caller's when a shares its memory
written_through(d, a, downwind_index) ==
    IF a.shared
    THEN [s \in FinalizeStates |->
            [d[s] EXCEPT ![downwind_index] = a.data[s][1]]]
    ELSE d

\* {v: d[:, 0] for v, d in wdel.items()}
final_wake_deltas(wdel) ==
    [v \in DOMAIN wdel |-> [s \in FinalizeStates |-> wdel[v].data[s][1]]]

\* RotorPoints.finalize_wakes: what it returns and the caller's wake_deltas
RotorPoints_finalize_wakes(amb_res, wake_deltas, wmodel, downwind_index) ==
    LET ares == [v \in DOMAIN amb_res |-> view(amb_res[v], downwind_index)]
        wdel == [v \in DOMAIN wake_deltas |->
                    ndarray_copy(view(wake_deltas[v], downwind_index))]
        done == finalize_wake_deltas(wmodel, ares, wdel)
    IN  [result |-> final_wake_deltas(done),
         wake_deltas |-> [v \in DOMAIN wake_deltas |->
            written_through(wake_deltas[v], done[v], downwind_index)]]

\* PartialSegregated.finalize_wakes
PartialSegregated_finalize_wakes(amb_res, wake_deltas, wmodel, downwind_index) ==
    LET ares == [v \in DOMAIN amb_res |-> view(amb_res[v], downwind_index)]
        wdel == [v \in DOMAIN wake_deltas |->
                    broadcast(einsum_sp_p(
                        [s \in FinalizeStates |->
                            wake_deltas[v][s][downwind_index]], gweights))]
        done == finalize_wake_deltas(wmodel, ares, wdel)
    IN  [result |-> final_wake_deltas(done),
         wake_deltas |-> [v \in DOMAIN wake_deltas |->
            written_through(wake_deltas[v], done[v], downwind_index)]]

InitFinalize ==
    /\ fw_in \in [pwake : {"RotorPoints", "PartialSegregated"},
                  wmodel : {"WakeModel", "Bastankhah2014"},
                  downwind_index : FinalizeTurbines,
                  wake_deltas : [WakeVars -> DeltaArrays]]
    /\ fw_amb \in [WakeVars -> AmbientArrays]
    /\ fw_deltas = fw_in.wake_deltas
    /\ fw_results = << >>

RotorPointsFinalizeWakes ==
    /\ fw_in.pwake = "RotorPoints"
    /\ Len(fw_results) < FinalizeMaxCalls
    /\ LET res == RotorPoints_finalize_wakes(fw_amb, fw_deltas, fw_in.wmodel,
                                             fw_in.downwind_index)
       IN  /\ fw_results' = Append(fw_results, res.result)
           /\ fw_deltas' = res.wake_deltas
    /\ UNCHANGED <<fw_in, fw_amb, finalizeFrame>>

SegregatedFinalizeWakes ==
    /\ fw_in.pwake = "PartialSegregated"
    /\ Len(fw_results) < FinalizeMaxCalls
    /\ LET res == PartialSegregated_finalize_wakes(fw_amb, fw_deltas,
                      fw_in.wmodel, fw_in.downwind_index)
       IN  /\ fw_results' = Append(fw_results, res.result)
           /\ fw_deltas' = res.wake_deltas
    /\ UNCHANGED <<fw_in, fw_amb, finalizeFrame>>

NextFinalize ==
    \/ RotorPointsFinalizeWakes
    \/ SegregatedFinalizeWakes

FinalizeIdle ==
    /\ fw_in = [pwake |-> "none", wmodel |-> "none", downwind_index |-> 0,
                wake_deltas |-> << >>]
    /\ fw_amb = << >>
    /\ fw_deltas = << >>
    /\ fw_results = << >>

(***************************************************************************)
(* One pass of an iterative algorithm: Engine.get_chunk_input_data         *)
(* prepares the chunks, each chunk's calculation runs after its            *)
(* preparation and reads the algorithm's chunk store; any order            *)
(***************************************************************************)
\* the chunk keys of the pass
PassKeys == StoreKeys(2, 2)

\* what the calculation of the chunk finds under its key
StoreEntry(store, key) ==
    IF key \in DOMAIN store THEN Some(store[key]) ELSE None

InitPass ==
    /\ ps_start \in UNION {[held -> Fragments] : held \in SUBSET PassKeys}
    /\ ps_chunk_store = ps_start
    /\ ps_algo_store = EmptyStore
    /\ ps_prepared = {}
    /\ ps_seen = EmptyStore

\* get_chunk_input_data(algo, ..., chunk_store, chunki_states, chunki_points,
\* iterative=True) for a chunk of the pass
PassGetChunkInputData ==
    \E key \in PassKeys \ ps_prepared :
        LET after == set_chunk_store_data(ps_algo_store, ps_chunk_store,
                                          key, TRUE)
        IN  /\ ps_algo_store' = after.algo
            /\ ps_chunk_store' = after.chunk_store
            /\ ps_prepared' = ps_prepared \cup {key}
            /\ UNCHANGED <<ps_start, ps_seen, passFrame>>

\* the calculation of a prepared chunk runs on the algorithm
PassRunChunk ==
    \E key \in ps_prepared \ DOMAIN ps_seen :
        /\ ps_seen' = DictUpdate(ps_seen,
                                 key :> StoreEntry(ps_algo_store, key))
        /\ UNCHANGED <<ps_start, ps_chunk_store, ps_algo_store, ps_prepared,
                       passFrame>>

NextPass ==
    \/ PassGetChunkInputData
    \/ PassRunChunk

PassIdle ==
    /\ ps_start = EmptyStore
    /\ ps_chunk_store = EmptyStore
    /\ ps_algo_store = EmptyStore
    /\ ps_prepared = {"idle"}
    /\ ps_seen = EmptyStore

(***************************************************************************)
(* _wrap_calc of the dask engine: the chunk's data containers are rebuilt, *)
(* output arrays are added to the last one, the model calculates, and      *)
(* results that are missing are looked up in the containers                *)
(***************************************************************************)
MaxDataSets == 3

\* the variables, and the shapes that the model tells apart: the expected
\* output shape oshape and any other shape
WrapVars == {"WS", "TI"}
Shapes == {"oshape", "other"}

\* an array: its shape and where its values come from
WrapArray(shape, origin) == [shape |-> shape, origin |-> origin]

\* the Data containers (mdata, fdata, tdata) rebuilt from ldata and edata
Containers(n) ==
    [1..n -> UNION {[held -> Shapes] : held \in SUBSET WrapVars}]
ContainerData(c, i) == [v \in DOMAIN c |-> WrapArray(c[v], i)]

\* no output array added
no_odata(out_vars, init_vars, last) == EmptyStore

\* odata: np.full(oshape, np.nan), or the copy of the initial values, for
\* the out_vars that the last container does not hold
odata(out_vars, init_vars, last) ==
    [v \in out_vars \ DOMAIN last |->
        WrapArray("oshape", IF v \in init_vars THEN "prev" ELSE "nan")]

\* the containers handed to calculate
calc_data(data, out_vars, init_vars) ==
    LET n == Len(data)
        added == odata(out_vars, init_vars, data[n])
    IN  IF n = 1
        THEN Append(data, added)
        ELSE [data EXCEPT ![n] = DictUpdate(added, data[n])]

\* the containers that hold v with the expected shape
Matching(data, v) ==
    {i \in 1..Len(data) : v \in DOMAIN data[i] /\ data[i][v].shape = "oshape"}

\* _wrap_calc from the calculation on: results, missing results replaced
\* by the first input data with matching shape, or ValueError
wrap_calc(inp) ==
    LET data == calc_data([i \in 1..Len(inp.data) |->
                              ContainerData(inp.data[i], i)],
                          inp.out_vars, inp.init_vars)
        res == [v \in inp.returned |-> WrapArray("oshape", "calculate")]
        missing == inp.out_vars \ DOMAIN res
        found == {v \in missing : Matching(data, v) # {}}
        replaced == [v \in found |->
                        data[CHOOSE i \in Matching(data, v) :
                                \A j \in Matching(data, v) : i <= j][v]]
    IN  IF missing \ found # {}
        THEN [raised |-> "ValueError",
              message |-> [missing |-> missing \ found, shape |-> "oshape"],
              results |-> EmptyStore]
        ELSE [raised |-> "no",
              message |-> [missing |-> {}, shape |-> "none"],
              results |-> DictUpdate(res, replaced)]

InitWrap ==
    /\ wc_in \in {inp \in [data : UNION {Containers(n) : n \in 1..MaxDataSets},
                           out_vars : SUBSET WrapVars \ {{}},
                           init_vars : SUBSET WrapVars,
                           returned : SUBSET WrapVars] :
                    /\ inp.init_vars \subseteq inp.out_vars
                    /\ inp.returned \subseteq inp.out_vars}
    /\ wc_out = [raised |-> "not called",
                 message |-> [missing |-> {}, shape |-> "none"],
                 results |-> EmptyStore]

WrapCalc ==
    /\ wc_out.raised = "not called"
    /\ wc_out' = wrap_calc(wc_in)
    /\ UNCHANGED <<wc_in, wrapFrame>>

NextWrap ==
    \/ WrapCalc

WrapIdle ==
    /\ wc_in = [data |-> << >>, out_vars |-> {}, init_vars |-> {},
                returned |-> {}]
    /\ wc_out = [raised |-> "idle",
                 message |-> [missing |-> {}, shape |-> "none"],
                 results |-> EmptyStore]

(***************************************************************************)
(* WindFarm.add_turbine                                                    *)
(***************************************************************************)
FarmMaxTurbines == 3

\* the preset indices and names a turbine may be passed with
PresetIndices == {None} \cup {Some(i) : i \in 0..FarmMaxTurbines}
PresetNames == {None, Some(<<"given", 0>>)}

\* f"T{turbine.index}"
TName(index) == <<"T", index>>

\* self.turbines after add_turbine(turbine)
add_turbine(farm, turbine) ==
    LET index == IF turbine.index = None THEN Len(farm)
                 ELSE ValueOf(turbine.index)
        name == IF turbine.name = None THEN TName(index)
                ELSE ValueOf(turbine.name)
    IN  Append(farm, [index |-> index, name |-> name])

\* WindFarm.__init__
InitFarm == turbines = << >>

AddTurbine ==
    /\ Len(turbines) < FarmMaxTurbines
    /\ \E index \in PresetIndices, name \in PresetNames :
          turbines' = add_turbine(turbines, [index |-> index, name |-> name])
    /\ UNCHANGED farmFrame

NextFarm ==
    \/ AddTurbine

FarmIdle == turbines = <<"idle">>

(***************************************************************************)
(* Timelines.get_wake_coos: the points of each state of the chunk are      *)
(* traced backwards in time along the displacements self._dxy, in one      *)
(* horizontal dimension, with one point per state                          *)
(***************************************************************************)
TraceMaxStates == 3
TraceMaxLength == 4

\* np.inf of trace_d and the fill value 1e20 of wcoos
Inf == 1000000
WcoosFill == 100000000

\* the displacements of one time step, self._dxy[g], in whole numbers
Displacements == {0 - 2, 0 - 1, 0, 1, 2}

Abs(x) == IF x >= 0 THEN x ELSE 0 - x

\* the states of the chunk, np.arange(n_states)
ChunkStates(inp) == 0..(inp.n_states - 1)

\* the arrays before the loop
trace_start(inp) ==
    [p |-> [s \in ChunkStates(inp) |-> inp.p0],
     l |-> [s \in ChunkStates(inp) |-> 0],
     d |-> [s \in ChunkStates(inp) |-> Inf],
     si |-> [s \in ChunkStates(inp) |-> s],
     wcx |-> [s \in ChunkStates(inp) |-> WcoosFill],
     used |-> [s \in ChunkStates(inp) |-> << >>]]

\* dxy = self._dxy[:i1], with i1 = i0 + mdata.n_states
dxy_of(inp) == [g \in 0..(inp.i0 + inp.n_states - 1) |-> inp.dxy[g]]

\* sel = (trace_si >= 0) & (trace_l < self.max_wake_length)
sel(tr, inp) ==
    {s \in ChunkStates(inp) : tr.si[s] >= 0 /\ tr.l[s] < inp.max_wake_length}

\* the state index of the trace stays where it is
same_state(si) == si

\* trace_si[sel] -= 1
previous_state(si) == si - 1

\* one iteration of the loop with np.any(sel): the arrays afterwards
trace_step(tr, inp) ==
    LET dxy == dxy_of(inp)
        on == sel(tr, inp)
        delta(s) == dxy[tr.si[s]]
        p(s) == tr.p[s] - delta(s)
        l(s) == tr.l[s] + Abs(delta(s))
        seln(s) == Abs(p(s)) < tr.d[s] /\ Abs(p(s)) < 2 * Abs(delta(s))
        raxis(s) == IF delta(s) > 0 THEN 1 ELSE 0 - 1
    IN  [p |-> [s \in ChunkStates(inp) |-> IF s \in on THEN p(s) ELSE tr.p[s]],
         l |-> [s \in ChunkStates(inp) |-> IF s \in on THEN l(s) ELSE tr.l[s]],
         d |-> [s \in ChunkStates(inp) |->
                  IF s \in on THEN Abs(p(s)) ELSE tr.d[s]],
         si |-> [s \in ChunkStates(inp) |->
                  IF s \in on THEN previous_state(tr.si[s]) ELSE tr.si[s]],
         wcx |-> [s \in ChunkStates(inp) |->
                  IF s \in on /\ seln(s) THEN p(s) * raxis(s) + l(s)
                  ELSE tr.wcx[s]],
         used |-> [s \in ChunkStates(inp) |->
                  IF s \in on THEN Append(tr.used[s], tr.si[s])
                  ELSE tr.used[s]]]

\* the loop as a whole: the arrays when it is left
RECURSIVE trace_loop(_, _)
trace_loop(tr, inp) ==
    IF sel(tr, inp) = {} THEN tr ELSE trace_loop(trace_step(tr, inp), inp)

InitTrace ==
    /\ tr_in \in {inp \in [n_all : 1..TraceMaxStates,
                           i0 : 0..(TraceMaxStates - 1),
                           n_states : 1..TraceMaxStates,
                           dxy : UNION {[0..(n - 1) -> Displacements] :
                                        n \in 1..TraceMaxStates},
                           max_wake_length : {1, TraceMaxLength},
                           p0 : {1, 3}] :
                    /\ inp.i0 + inp.n_states <= inp.n_all
                    /\ DOMAIN inp.dxy = 0..(inp.n_all - 1)}
    /\ trace = trace_start(tr_in)
    /\ tr_iters = 0
    /\ tr_pc = "loop"

\* while True: if np.any(sel): one tracing iteration
TraceIteration ==
    /\ tr_pc = "loop"
    /\ sel(trace, tr_in) # {}
    /\ trace' = trace_step(trace, tr_in)
    /\ tr_iters' = tr_iters + 1
    /\ UNCHANGED <<tr_in, tr_pc, traceFrame>>

\* else: break, and return wcoos
TraceReturn ==
    /\ tr_pc = "loop"
    /\ sel(trace, tr_in) = {}
    /\ tr_pc' = "returned"
    /\ UNCHANGED <<tr_in, trace, tr_iters, traceFrame>>

NextTrace ==
    \/ TraceIteration
    \/ TraceReturn

TraceIdle ==
    /\ tr_in = [n_all |-> 0, i0 |-> 0, n_states |-> 0, dxy |-> << >>,
                max_wake_length |-> 0, p0 |-> 0]
    /\ trace = << >>
    /\ tr_iters = 0
    /\ tr_pc = "idle"

(***************************************************************************)
(* DaskEngine.initialize: the cluster and its client are launched, the     *)
(* progress bar is registered, the dask configuration is set, and then     *)
(* Engine.initialize enters the engine as the global one                   *)
(***************************************************************************)
\* the dask configurations that the model tells apart: key -> value
DaskConfigs ==
    {EmptyStore, "scheduler" :> "threads", "num_workers" :> "four"}

InitDaskInit ==
    /\ di_self \in [cluster : {"none", "local", "slurm"},
                    progress_bar : BOOLEAN,
                    dask_config : DaskConfigs,
                    _cluster : {"none"},
                    _client : {"none"},
                    pbar_registered : {FALSE},
                    initialized : {FALSE}]
    /\ di_engine \in {None, Some("other engine")}
    /\ di_config \in [start : {"scheduler" :> "sync"},
                      now : {"scheduler" :> "sync"}]
    /\ di_pc = "constructed"

\* if self.cluster == "local": ... elif self.cluster == "slurm": ...
DaskLaunchCluster ==
    /\ di_pc = "constructed"
    /\ di_self' = IF di_self.cluster = "none" THEN di_self
                  ELSE [di_self EXCEPT
                          !._cluster = IF di_self.cluster = "local"
                                       THEN "LocalCluster" ELSE "SLURMCluster",
                          !._client = "Client",
                          !.dask_config = DictUpdate(@,
                                             "scheduler" :> "distributed")]
    /\ di_pc' = "progress_bar"
    /\ UNCHANGED <<di_engine, di_config, dinitFrame>>

\* if self.progress_bar: self._pbar = ProgressBar(minimum=2); register()
DaskRegisterProgressBar ==
    /\ di_pc = "progress_bar"
    /\ di_self' = [di_self EXCEPT !.pbar_registered = di_self.progress_bar]
    /\ di_pc' = "config"
    /\ UNCHANGED <<di_engine, di_config, dinitFrame>>

\* dask.config.set(**self.dask_config)
DaskConfigSet ==
    /\ di_pc = "config"
    /\ di_config' = [di_config EXCEPT
                       !.now = DictUpdate(@, di_self.dask_config)]
    /\ di_pc' = "super"
    /\ UNCHANGED <<di_self, di_engine, dinitFrame>>

\* super().initialize(): Engine.initialize
DaskSuperInitialize ==
    /\ di_pc = "super"
    /\ IF di_engine # None
       THEN /\ di_pc' = "ValueError"
            /\ UNCHANGED <<di_self, di_engine>>
       ELSE /\ di_engine' = Some("self")
            /\ di_self' = [di_self EXCEPT !.initialized = TRUE]
            /\ di_pc' = "returned"
    /\ UNCHANGED <<di_config, dinitFrame>>

\* DaskEngine.finalize of the initialized engine: client and cluster are
\* closed, the progress bar is unregistered, the dask configuration is
\* refreshed, Engine.finalize clears the global engine
DaskFinalize ==
    /\ di_pc = "returned"
    /\ di_self' = [di_self EXCEPT !._cluster = "none", !._client = "none",
                                  !.pbar_registered = FALSE,
                                  !.initialized = FALSE]
    /\ di_config' = [di_config EXCEPT !.now = di_config.start]
    /\ di_engine' = None
    /\ di_pc' = "finalized"
    /\ UNCHANGED dinitFrame

NextDaskInit ==
    \/ DaskLaunchCluster
    \/ DaskRegisterProgressBar
    \/ DaskConfigSet
    \/ DaskSuperInitialize
    \/ DaskFinalize

DaskInitIdle ==
    /\ di_self = << >>
    /\ di_engine = None
    /\ di_config = << >>
    /\ di_pc = "idle"

(***************************************************************************)
(* The property Engine.loop_dims                                           *)
(***************************************************************************)
\* Engine.loop_dims: the list of the loop dimensions
loop_dims(self) ==
    IF self.chunk_size_states = None /\ self.chunk_size_states = None
    THEN << >>
    ELSE IF self.chunk_size_states = None
    THEN <<"target">>
    ELSE IF self.chunk_size_points = None
    THEN <<"state">>
    ELSE <<"state", "target">>

\* Engine.__init__
InitDims ==
    /\ ld_self \in [chunk_size_states : ChunkSizeConfigs,
                    chunk_size_points : ChunkSizeConfigs,
                    verbosity : {0, 1, 2}]
    /\ ld_dims = None

LoopDims ==
    /\ ld_dims = None
    /\ ld_dims' = Some(loop_dims(ld_self))
    /\ UNCHANGED <<ld_self, dimsFrame>>

NextDims ==
    \/ LoopDims

DimsIdle ==
    /\ ld_self = << >>
    /\ ld_dims = None

(***************************************************************************)
(* Specifications                                                          *)
(***************************************************************************)
\* the values of a part of the model that a specification does not exercise
ChunksIdle ==
    /\ cc_self = [n_procs |-> 1, chunk_size_states |-> None,
                  chunk_size_points |-> None]
    /\ cc_args = NotCalled
    /\ cc_result = Raised("not called")

\* the parts of the model in the state in which nothing is called on them
EnginesIdle == ChunksIdle /\ InitLife /\ RunIdle /\ StoreIdle /\ DaskIdle
ModelsIdle ==
    WakesIdle /\ OrderIdle /\ DataIdle /\ FactoryIdle /\ FinalizeIdle
      /\ PassIdle /\ WrapIdle /\ FarmIdle /\ TraceIdle /\ DaskInitIdle
      /\ DimsIdle

InitSpecChunks ==
    InitChunks /\ InitLife /\ RunIdle /\ StoreIdle /\ DaskIdle /\ ModelsIdle

SpecChunks == InitSpecChunks /\ [][NextChunks]_vars

InitSpecLife ==
    InitLife /\ ChunksIdle /\ RunIdle /\ StoreIdle /\ DaskIdle /\ ModelsIdle

SpecLife == InitSpecLife /\ [][NextLife]_vars

InitSpecRun ==
    InitRun /\ ChunksIdle /\ InitLife /\ StoreIdle /\ DaskIdle /\ ModelsIdle

SpecRun == InitSpecRun /\ [][NextRun]_vars

InitSpecStore ==
    InitStore /\ ChunksIdle /\ InitLife /\ RunIdle /\ DaskIdle /\ ModelsIdle

SpecStore == InitSpecStore /\ [][NextStore]_vars

InitSpecWakes ==
    InitWakes /\ EnginesIdle /\ OrderIdle /\ DataIdle /\ FactoryIdle
      /\ FinalizeIdle /\ PassIdle /\ WrapIdle /\ FarmIdle /\ TraceIdle
      /\ DaskInitIdle /\ DimsIdle

SpecWakes == InitSpecWakes /\ [][NextWakes]_vars

InitSpecOrder ==
    InitOrder /\ EnginesIdle /\ WakesIdle /\ DataIdle /\ FactoryIdle
      /\ FinalizeIdle /\ PassIdle /\ WrapIdle /\ FarmIdle /\ TraceIdle
      /\ DaskInitIdle /\ DimsIdle

SpecOrder == InitSpecOrder /\ [][NextOrder]_vars

\* a run_calculation call on a LocalClusterEngine or on a DaskEngine
InitSpecRunCalculation ==
    /\ \/ InitRun /\ DaskIdle
       \/ RunIdle /\ InitDask
    /\ ChunksIdle /\ InitLife /\ StoreIdle /\ ModelsIdle

SpecRunCalculation == InitSpecRunCalculation /\ [][NextRunCalculation]_vars

InitSpecData ==
    InitData /\ EnginesIdle /\ WakesIdle /\ OrderIdle /\ FactoryIdle
      /\ FinalizeIdle /\ PassIdle /\ WrapIdle /\ FarmIdle /\ TraceIdle
      /\ DaskInitIdle /\ DimsIdle

SpecData == InitSpecData /\ [][NextData]_vars

InitSpecFactory ==
    InitFactory /\ EnginesIdle /\ WakesIdle /\ OrderIdle /\ DataIdle
      /\ FinalizeIdle /\ PassIdle /\ WrapIdle /\ FarmIdle /\ TraceIdle
      /\ DaskInitIdle /\ DimsIdle

SpecFactory == InitSpecFactory /\ [][NextFactory]_vars

InitSpecFinalize ==
    InitFinalize /\ EnginesIdle /\ WakesIdle /\ OrderIdle /\ DataIdle
      /\ FactoryIdle /\ PassIdle /\ WrapIdle /\ FarmIdle /\ TraceIdle
      /\ DaskInitIdle /\ DimsIdle

SpecFinalize == InitSpecFinalize /\ [][NextFinalize]_vars

InitSpecPass ==
    InitPass /\ EnginesIdle /\ WakesIdle /\ OrderIdle /\ DataIdle
      /\ FactoryIdle /\ FinalizeIdle /\ WrapIdle /\ FarmIdle /\ TraceIdle
      /\ DaskInitIdle /\ DimsIdle

SpecPass == InitSpecPass /\ [][NextPass]_vars

InitSpecWrap ==
    InitWrap /\ EnginesIdle /\ WakesIdle /\ OrderIdle /\ DataIdle
      /\ FactoryIdle /\ FinalizeIdle /\ PassIdle /\ FarmIdle /\ TraceIdle
      /\ DaskInitIdle /\ DimsIdle

SpecWrap == InitSpecWrap /\ [][NextWrap]_vars

InitSpecFarm ==
    InitFarm /\ EnginesIdle /\ WakesIdle /\ OrderIdle /\ DataIdle
      /\ FactoryIdle /\ FinalizeIdle /\ PassIdle /\ WrapIdle /\ TraceIdle
      /\ DaskInitIdle /\ DimsIdle

SpecFarm == InitSpecFarm /\ [][NextFarm]_vars

InitSpecTrace ==
    InitTrace /\ EnginesIdle /\ WakesIdle /\ OrderIdle /\ DataIdle
      /\ FactoryIdle /\ FinalizeIdle /\ PassIdle /\ WrapIdle /\ FarmIdle
      /\ DaskInitIdle /\ DimsIdle

SpecTrace == InitSpecTrace /\ [][NextTrace]_vars

\* the loop of get_wake_coos gets its turn as long as it can take a step
SpecTraceFair == SpecTrace /\ WF_vars(NextTrace)

InitSpecDaskInit ==
    InitDaskInit /\ EnginesIdle /\ WakesIdle /\ OrderIdle /\ DataIdle
      /\ FactoryIdle /\ FinalizeIdle /\ PassIdle /\ WrapIdle /\ FarmIdle
      /\ TraceIdle /\ DimsIdle

SpecDaskInit == InitSpecDaskInit /\ [][NextDaskInit]_vars

InitSpecDims ==
    InitDims /\ EnginesIdle /\ WakesIdle /\ OrderIdle /\ DataIdle
      /\ FactoryIdle /\ FinalizeIdle /\ PassIdle /\ WrapIdle /\ FarmIdle
      /\ TraceIdle /\ DaskInitIdle

SpecDims == InitSpecDims /\ [][NextDims]_vars

(***************************************************************************)
(* Claims on Engine.calc_chunk_sizes, checked under SpecChunks             *)
(***************************************************************************)
Called == cc_args.n_states >= 1
Returned == cc_result.raised = "no"
AllAtLeastOne(sizes) == \A i \in 1..Len(sizes) : sizes[i] >= 1
Balanced(sizes) ==
    \A i, j \in 1..Len(sizes) :
        i < j => sizes[i] <= sizes[j] /\ sizes[j] <= sizes[i] + 1

\* C1: for every n_states >= 1, n_targets >= 1, n_procs >= 1 and every chunk
\* size configuration (each size unset or a positive integer) the call
\* returns states chunk sizes that sum to n_states and targets chunk sizes
\* that sum to n_targets.
C1_ChunkSizesSumToExtent ==
    (Called /\ cc_args.n_targets >= 1) =>
        /\ Returned
        /\ SumSeq(cc_result.chunk_sizes_states) = cc_args.n_states
        /\ SumSeq(cc_result.chunk_sizes_targets) = cc_args.n_targets

\* C2 as stated: for every n_states >= 1 and every n_targets a caller passes,
\* n_targets = 0 included, no returned chunk size is zero or negative.
C2_NoChunkSizeBelowOne ==
    (Called /\ Returned) =>
        /\ AllAtLeastOne(cc_result.chunk_sizes_states)
        /\ AllAtLeastOne(cc_result.chunk_sizes_targets)

\* C2 as amended: every returned states chunk size is at least 1; every
\* returned targets chunk size is at least 1 when n_targets >= 1; for
\* n_targets = 0 the targets axis has the single chunk of size 0.
C2_NoChunkSizeBelowOneWithTargets ==
    (Called /\ Returned) =>
        /\ AllAtLeastOne(cc_result.chunk_sizes_states)
        /\ cc_args.n_targets >= 1 => AllAtLeastOne(cc_result.chunk_sizes_targets)
        /\ cc_args.n_targets = 0 => cc_result.chunk_sizes_targets = <<0>>

C2_Witness ==
    /\ Called /\ Returned
    /\ cc_args.n_targets = 0
    /\ Len(cc_result.chunk_sizes_states) >= 2
    /\ cc_result.chunk_sizes_targets = <<0>>

\* C3: with chunk_size_states (chunk_size_points) configured as c, no
\* returned states (targets) chunk size is larger than c.
C3_ChunkSizeAtMostConfigured ==
    (Called /\ Returned) =>
        /\ cc_self.chunk_size_states # None =>
              \A i \in 1..Len(cc_result.chunk_sizes_states) :
                  cc_result.chunk_sizes_states[i]
                      <= ValueOf(cc_self.chunk_size_states)
        /\ (cc_self.chunk_size_points # None /\ cc_args.n_targets >= 1) =>
              \A i \in 1..Len(cc_result.chunk_sizes_targets) :
                  cc_result.chunk_sizes_targets[i]
                      <= ValueOf(cc_self.chunk_size_points)

\* C4: on each axis the returned chunk sizes differ by at most 1 and are
\* non-decreasing in the chunk index (the remainder sits at the end).
C4_SizesBalancedRemainderLast ==
    (Called /\ Returned) =>
        /\ Balanced(cc_result.chunk_sizes_states)
        /\ Balanced(cc_result.chunk_sizes_targets)

C4_Witness ==
    /\ Called /\ Returned
    /\ Len(cc_result.chunk_sizes_states) >= 3
    /\ cc_result.chunk_sizes_states[1] < cc_result.chunk_sizes_states[2]
    /\ Len(cc_result.chunk_sizes_targets) >= 2
    /\ cc_result.chunk_sizes_targets[1] < cc_result.chunk_sizes_targets[2]

\* C5 as stated: with chunk_size_states unset the states chunks derive from
\* the default chunk size ceil(n_states/n_procs), and the number of states
\* chunks does not exceed n_procs.
C5_DefaultChunksWithinProcs ==
    (Called /\ Returned /\ cc_self.chunk_size_states = None) =>
        /\ cc_result.chunk_sizes_states =
              balanced_chunk_sizes(cc_args.n_states,
                  IntDiv(cc_args.n_states,
                      IntDiv(cc_args.n_states + cc_self.n_procs - 1,
                             cc_self.n_procs)))
        /\ Len(cc_result.chunk_sizes_states) <= cc_self.n_procs

\* C5 as amended: with chunk_size_states unset the default chunk size is
\* max(floor(n_states/n_procs), 1), so the number of states chunks is at
\* least min(n_states, n_procs) and less than 2*n_procs.
C5_DefaultChunksCoverProcs ==
    (Called /\ Returned /\ cc_self.chunk_size_states = None) =>
        /\ Len(cc_result.chunk_sizes_states)
              >= Min(cc_args.n_states, cc_self.n_procs)
        /\ Len(cc_result.chunk_sizes_states) < 2 * cc_self.n_procs

C5_Witness ==
    /\ Called /\ Returned
    /\ cc_self.chunk_size_states = None
    /\ cc_args.n_states > cc_self.n_procs
    /\ Len(cc_result.chunk_sizes_states) > cc_self.n_procs

(***************************************************************************)
(* Claims on the engine life cycle, checked under SpecLife                 *)
(***************************************************************************)
InitializedEngines == {e \in EngineIds : initialized[e]}

\* C6: after any sequence of initialize, finalize and get_engine calls on
\* any number of Engine objects at most one engine is initialized and the
\* global engine is exactly that engine (None when none is initialized);
\* finalize on an engine that is not initialized does not clear another.
C6_SingleActiveEngine ==
    /\ Cardinality(InitializedEngines) <= 1
    /\ global_engine = None <=> InitializedEngines = {}
    /\ \A e \in EngineIds : global_engine = Some(e) <=> initialized[e]
    /\ InitializedEngines \subseteq constructed

C6_Witness ==
    /\ lc_call.op = "finalize"
    /\ ~initialized[lc_call.engine]
    /\ \E a \in constructed :
          a # lc_call.engine /\ initialized[a] /\ global_engine = Some(a)

\* C7: initialize on engine B while a different engine A is the global
\* engine raises ValueError and changes nothing: A stays the global engine
\* and initialized, B stays uninitialized.
C7_SecondInitializeRaises ==
    [][(/\ lc_call'.op = "initialize"
        /\ global_engine # None
        /\ global_engine # Some(lc_call'.engine))
       => (/\ lc_call'.raised = "ValueError"
           /\ global_engine' = global_engine
           /\ initialized' = initialized
           /\ ~initialized'[lc_call'.engine]
           /\ initialized'[ValueOf(global_engine)])]_vars

C7_Witness ==
    /\ lc_call.op = "initialize"
    /\ lc_call.raised = "ValueError"
    /\ global_engine # None
    /\ global_engine # Some(lc_call.engine)
    /\ ~initialized[lc_call.engine]

(***************************************************************************)
(* Claims on LocalClusterEngine.run_calculation, checked under SpecRun     *)
(***************************************************************************)
RECURSIVE Offset(_, _)
Offset(sizes, i) == IF i = 0 THEN 0 ELSE Offset(sizes, i - 1) + sizes[i]

NChunksStates == Len(run_chunks.chunk_sizes_states)
NChunksTargets == Len(run_chunks.chunk_sizes_targets)
ChunkKeys == (0..(NChunksStates - 1)) \X (0..(NChunksTargets - 1))

AllCols == IF run_in.n_targets = 0 THEN Turbines ELSE TargetCoords(run_in.n_targets)

\* what a single calculation over all states and targets gives
Unchunked == calculate(StateCoords(run_in.n_states), AllCols)

\* what the calculation of chunk key gives, from the chunk sizes alone
ChunkResult(key) ==
    LET d == chunk_data(run_in,
                 Offset(run_chunks.chunk_sizes_states, key[1]),
                 Offset(run_chunks.chunk_sizes_states, key[1] + 1),
                 Offset(run_chunks.chunk_sizes_targets, key[2]),
                 Offset(run_chunks.chunk_sizes_targets, key[2] + 1))
    IN  calculate(d.mdata, d.cols)

\* C8: for a model whose result at a state and target does not depend on
\* the rest of its chunk, the chunk results combined in ascending chunk
\* index order (states along axis 0, targets along axis 1) are, for every
\* output variable, exactly the array of one unchunked calculation, for
\* every number of states and targets chunks, one targets chunk included.
C8_CombinedEqualsUnchunked ==
    run_pc = "returned" => dataset = Unchunked

C8_Witness ==
    /\ run_pc = "returned"
    /\ NChunksStates >= 2
    /\ NChunksTargets >= 2
    /\ run_chunks.chunk_sizes_states[1] < run_chunks.chunk_sizes_states[2]
    /\ dataset = Unchunked

\* C9: run_calculation returns the same dataset whatever the order in which
\* the jobs end: it returns only when every job has ended, and the result
\* kept and concatenated for a chunk index is that chunk's own result.
C9_ResultIndependentOfCompletionOrder ==
    run_pc = "returned" =>
        /\ DOMAIN jobs = ChunkKeys
        /\ \A k \in ChunkKeys : jobs[k].status = "finished"
        /\ DOMAIN results = ChunkKeys
        /\ \A k \in ChunkKeys : results[k] = ChunkResult(k)
        /\ dataset = combine([k \in ChunkKeys |-> ChunkResult(k)],
                             NChunksStates, NChunksTargets)

C9_Witness ==
    /\ run_pc = "returned"
    /\ out_of_order
    /\ Len(submitted) >= 4
    /\ NChunksTargets >= 2

\* C10: if a chunk job fails the call fails as a whole: the failure is
\* raised, no dataset is returned, not a partial one either, and no job is
\* submitted a second time.
C10_FailedJobFailsRun ==
    /\ (\E k \in DOMAIN jobs : jobs[k].status = "error")
          => run_pc \notin {"combine", "returned"}
    /\ \A k \in DOMAIN results : jobs[k].status = "finished"
    /\ run_pc # "returned" => dataset = NoDataset
    /\ run_raised = "JobError" =>
          /\ run_pc = "raised"
          /\ \E k \in DOMAIN jobs : jobs[k].status = "error"
    /\ \A i, j \in 1..Len(submitted) : i # j => submitted[i] # submitted[j]

C10_Witness ==
    /\ run_pc = "raised"
    /\ run_raised = "JobError"
    /\ DOMAIN results # {}
    /\ dataset = NoDataset
    /\ \E k \in DOMAIN jobs : jobs[k].status = "finished" /\ k \notin DOMAIN results

(***************************************************************************)
(* Claims on the chunk store, checked under SpecStore                      *)
(***************************************************************************)
\* the last call was a calculation that is not iterative or is the final
\* iteration, and its results have been combined
FinalCombined ==
    \/ /\ st_call.op = "combine_results"
       /\ ~st_call.iterative \/ st_call.final_iteration
    \/ /\ st_call.op \in {"DaskEngine", "LocalClusterEngine", "SlurmClusterEngine"}
       /\ st_call.final_iteration

\* the stores returned by the chunks of the last combine_results call
ReturnedFragments ==
    LET res == ChunkResults(store_grid, {}, st_call.fragment)
    IN  {res[k].cstore : k \in DOMAIN res}

Holds(store, fragment) ==
    \A k \in DOMAIN fragment : k \in DOMAIN store /\ store[k] = fragment[k]

\* C11: after the results of a calculation that is not iterative, or is the
\* final iteration of an iterative algorithm, have been combined, the
\* algorithm's chunk store is empty, whichever engine ran the calculation.
C11_StoreEmptyAfterFinalCombine ==
    FinalCombined => algo_chunk_store = EmptyStore

\* C12: after combine_results with iterative = True and the algorithm not at
\* its final iteration, the algorithm's chunk store holds the store returned
\* by every chunk under that chunk's key, for any list of out_vars.
C12_FragmentsMergedForAnyOutVars ==
    (st_call.op = "combine_results" /\ st_call.iterative
        /\ ~st_call.final_iteration)
    => \A fragment \in ReturnedFragments : Holds(algo_chunk_store, fragment)

WakeSlots == Slots(wk_in.n_turbines)

\* the loop over the slots has ended for the wake model wk_pc.wmodel, or for
\* the one before it when the deltas of the next one are not allocated yet
PassDone ==
    \/ wk_pc.at \in {"return", "returned"} /\ wk_pc.wmodel >= 1
    \/ wk_pc.at = "new_wake_deltas" /\ wk_pc.wmodel >= 2

\* how often the wake of slot s has been contributed into the deltas at t
Contributions(s, t) ==
    Cardinality({n \in 1..Len(wdeltas[t]) : wdeltas[t][n].source = s})

\* C14: in one wake-model pass over N turbines, for every ordered pair of
\* distinct slots (s, t) exactly one contribution of s into the deltas at t is
\* made, and no slot contributes into its own deltas; for N = 1 no
\* contribution call is made and the single slot is only evaluated.
C14_EachPairContributedOnce ==
    /\ \A s, t \in WakeSlots :
          /\ Contributions(s, t) <= 1
          /\ s = t => Contributions(s, t) = 0
          /\ (PassDone /\ s # t) => Contributions(s, t) = 1
    /\ wk_in.n_turbines = 1 => contribute_calls = 0
    /\ PassDone => \A t \in WakeSlots : fdata_state[t].pass >= 1

\* the pass of the second wake model over three turbines has ended
C14_Witness ==
    /\ PassDone
    /\ wk_pc.wmodel = 2
    /\ wk_pc.at = "return"
    /\ wk_in.n_turbines = 3
    /\ contribute_calls = 4

\* C22: at the moment downwind slot oi is evaluated in a wake-model pass, the
\* wake deltas at slot oi contain the contribution of every slot < oi exactly
\* once and the contribution of no slot >= oi.
C22_UpstreamContributionsAtEvaluation ==
    wk_pc.at = "evaluate_results"
    => \A s \in WakeSlots :
          Contributions(s, wk_pc.oi) = IF s < wk_pc.oi THEN 1 ELSE 0

\* the last of three slots is about to be evaluated, two wakes in its deltas
C22_Witness ==
    /\ wk_pc.at = "evaluate_results"
    /\ wk_in.n_turbines = 3
    /\ wk_pc.oi = 2
    /\ Len(wdeltas[2]) = 2

\* C15: in a wake-model pass, the wake of slot oi is contributed into another
\* slot's deltas only after slot oi's own final state for that pass has been
\* computed (wake results evaluated, farm controller run and, with
\* under-relaxation configured, the blended value written).
C15_ContributionAfterOwnEvaluation ==
    wk_pc.at \in {"contribute_downstream", "evaluate_results",
                  "farm_controller", "urelax", "return", "returned"}
    => \A t \in WakeSlots : \A n \in 1..Len(wdeltas[t]) :
          /\ wdeltas[t][n].source_state.pass = wk_pc.wmodel
          /\ wdeltas[t][n].source_state.value =
                IF wk_in.urelax THEN "blended" ELSE "controller"

\* C16: during one calculate call on a chunk, the farm controller's
\* calculate(pre_rotor=False, downwind_index=oi) is invoked exactly once for
\* each downwind slot oi, for any number of wake models.
C16_ControllerOncePerSlot ==
    wk_pc.at = "returned" => \A oi \in WakeSlots : ctrl_calls[oi] = 1

(***************************************************************************)
(* Claims on Timelines.calc_order, checked under SpecOrder                 *)
(***************************************************************************)
\* two turbines with the same wake x coordinate in every wake frame
TiedTurbines ==
    \E a, b \in TurbineIndices(tl_n_turbines) :
        /\ a # b
        /\ \A ti \in TurbineIndices(tl_n_turbines) : coosx[ti][a] = coosx[ti][b]

\* C17: Timelines.calc_order returns, for a state of the chunk, a permutation
\* of 0..N-1 (every turbine index exactly once, none omitted), for any
\* wake-coordinate values including ties between turbines.
C17_OrderIsPermutation ==
    tl_pc.at = "returned"
    => /\ Len(order) = tl_n_turbines
       /\ \A ti \in TurbineIndices(tl_n_turbines) :
             Cardinality({p \in 1..Len(order) : order[p] = ti}) = 1

\* the order of three turbines has been returned, two of them tied and the
\* order not the order of the indices
C17_Witness ==
    /\ tl_pc.at = "returned"
    /\ tl_n_turbines = 3
    /\ TiedTurbines
    /\ order # <<0, 1, 2>>

(***************************************************************************)
(* Claims on run_calculation of both engines, checked under                *)
(* SpecRunCalculation                                                      *)
(***************************************************************************)
\* C18: run_calculation on an engine that is not initialized raises
\* ValueError, and in DaskEngine and LocalClusterEngine this happens before
\* any chunk is built, scattered or submitted.
C18_UninitializedRaisesBeforeChunks ==
    /\ (~run_self.initialized /\ run_pc \notin {"idle", "start"})
       => /\ run_pc = "raised"
          /\ run_raised = "ValueError"
          /\ run_chunks = NoChunks
          /\ jobs = NoJobs
          /\ submitted = << >>
    /\ (~dk_self.initialized /\ dk_pc \notin {"idle", "start"})
       => /\ dk_pc = "raised"
          /\ dk_raised = "ValueError"
          /\ dk_saved = NoSavedSizes
          /\ dk_chunked = NotChunked

\* a call on a LocalClusterEngine that is not initialized, with point data of
\* several chunks, has raised
C18_Witness ==
    /\ ~run_self.initialized
    /\ run_pc = "raised"
    /\ run_raised = "ValueError"
    /\ run_in.n_targets > 1
    /\ run_self.chunk_size_points = Some(1)

\* the DaskEngine call has ended after the chunk sizes were saved
DaskExited ==
    \/ dk_pc = "returned"
    \/ dk_pc = "raised" /\ dk_raised = "CalculationError"

\* C28: DaskEngine.run_calculation leaves the engine's configured
\* chunk_size_states and chunk_size_points equal to their values before the
\* call on every exit, whether it returns normally or the model calculation
\* raises (values it fills in for unset sizes are only temporary).
C28_ChunkSizesRestoredOnEveryExit ==
    DaskExited
    => /\ dk_self.chunk_size_states = dk_saved.chunk_size_states0
       /\ dk_self.chunk_size_points = dk_saved.chunk_size_points0

(***************************************************************************)
(* Claims on the construction of a chunk's data, checked under SpecData    *)
(***************************************************************************)
ChunkNStates == cd_in.states_i0_i1[2] - cd_in.states_i0_i1[1]
ChunkNTargets == cd_in.targets_i0_i1[2] - cd_in.targets_i0_i1[1]

\* the array has the shape (n, m), and with inner the shape (n, m, 1)
HasShape(array, n, m, inner) ==
    /\ Len(array) = n
    /\ \A a \in 1..n :
          /\ Len(array[a]) = m
          /\ inner => \A b \in 1..m : Len(array[a][b]) = 1

\* C19: after chunk construction every requested output variable exists in
\* the chunk's goal data (farm data when there is no point data, target data
\* otherwise) with the chunk's shape: a variable absent from the input is
\* filled with NaN of shape (chunk states, n_turbines), respectively (chunk
\* states, chunk targets, 1), and a variable already present is not
\* overwritten.
C19_OutVarsExistInGoalData ==
    cd_out.by \in {"Engine.get_chunk_input_data",
                   "LocalClusterEngine.run_calculation"}
    => \A o \in cd_in.out_vars :
          IF cd_in.n_targets = 0
          THEN /\ o \in DOMAIN cd_out.fdata
               /\ HasShape(cd_out.fdata[o], ChunkNStates, NTurbines, FALSE)
               /\ cd_out.fdata[o] =
                     IF o \in cd_in.farm_vars
                     THEN SliceStates(FarmArray(o, cd_in.n_states),
                                      cd_in.states_i0_i1[1],
                                      cd_in.states_i0_i1[2])
                     ELSE FullNaN2(ChunkNStates, NTurbines)
          ELSE /\ o \in DOMAIN ValueOf(cd_out.tdata)
               /\ HasShape(ValueOf(cd_out.tdata)[o], ChunkNStates,
                           ChunkNTargets, TRUE)
               /\ ValueOf(cd_out.tdata)[o] =
                     IF o \in cd_in.point_vars
                     THEN SliceStatesTargets(
                              PointArray(o, cd_in.n_states, cd_in.n_targets),
                              cd_in.states_i0_i1[1], cd_in.states_i0_i1[2],
                              cd_in.targets_i0_i1[1], cd_in.targets_i0_i1[2])
                     ELSE FullNaN3(ChunkNStates, ChunkNTargets)

\* a chunk of point data has been constructed that does not start at the
\* first state and target, one output variable present and one absent
C19_Witness ==
    /\ cd_out.by = "LocalClusterEngine.run_calculation"
    /\ cd_in.n_targets = 2
    /\ cd_in.states_i0_i1 = <<1, 2>>
    /\ cd_in.targets_i0_i1 = <<1, 2>>
    /\ cd_in.out_vars = {"WS", "TI"}
    /\ cd_in.point_vars = {"WS"}
    /\ ValueOf(cd_out.tdata)["TI"] = <<<<<<NaN>>>>>>
    /\ ValueOf(cd_out.tdata)["WS"] = <<<<<< <<"WS", 1, 1>> >>>>>>

(***************************************************************************)
(* Claims on the factories and the model book, checked under SpecFactory   *)
(***************************************************************************)
\* the list holds the same names as the other one, in ascending order
SortedNamesOf(list, names) ==
    /\ Len(list) = Len(names)
    /\ {list[i] : i \in 1..Len(list)} = {names[i] : i \in 1..Len(names)}
    /\ \A i \in 1..(Len(list) - 1) : list[i] < list[i + 1]

SubclassNames == {allc[i] : i \in 1..Len(allc)}

\* C20: requesting an unknown type fails with a KeyError that names the
\* requested type and lists the sorted available names: Engine.new and
\* WakeModel.new raise it when no subclass has the requested class name (and
\* return an instance of the matching subclass otherwise), and ModelBook.get
\* raises it when the name is not registered and no class_name is given.
C20_UnknownTypeRaisesKeyError ==
    /\ (fc_call.op \in {"Engine.new", "WakeModel.new"}
          /\ fc_call.requested # None)
       => IF ValueOf(fc_call.requested) \in SubclassNames
          THEN /\ fc_call.raised = "no"
               /\ fc_call.value = fc_call.requested
          ELSE /\ fc_call.raised = "KeyError"
               /\ fc_call.message.requested = fc_call.requested
               /\ SortedNamesOf(fc_call.message.available, allc)
    /\ (fc_call.op = "ModelBook.get" /\ ~fc_call.registered
          /\ fc_call.class_name = None)
       => /\ fc_call.raised = "KeyError"
          /\ fc_call.message.requested = fc_call.requested
          /\ SortedNamesOf(fc_call.message.available, keys(sources))

\* WakeModel.new has raised for a name that no subclass has, the subclasses
\* not being listed in the order of their names
C20_Witness ==
    /\ fc_call.op = "WakeModel.new"
    /\ fc_call.raised = "KeyError"
    /\ Len(allc) >= 2
    /\ allc[1] > allc[2]
    /\ fc_call.message.available # allc

C23_EntryPresentWhenChunkRuns ==
    \A key \in DOMAIN ps_seen :
        key \in DOMAIN ps_start => ps_seen[key] = Some(ps_start[key])

(***************************************************************************)
(* Claims on _wrap_calc, checked under SpecWrap                            *)
(***************************************************************************)
WrapCalled == wc_out.raised \in {"no", "ValueError"}
NotReturned == wc_in.out_vars \ wc_in.returned

\* the chunk's input containers that hold v with the expected output shape
InputsWith(v) ==
    {i \in 1..Len(wc_in.data) :
        v \in DOMAIN wc_in.data[i] /\ wc_in.data[i][v] = "oshape"}
LastInput == wc_in.data[Len(wc_in.data)]

\* C24 as stated: when model.calculate does not return a requested output
\* variable, the chunk fails with a ValueError naming the missing variables
\* and the expected shape, unless one of the chunk's input containers holds
\* a variable of that name with exactly the expected output shape, in which
\* case the first such input array is used as the result.
C24_MissingResultRaises ==
    WrapCalled
    => \A v \in NotReturned :
          IF InputsWith(v) = {}
          THEN /\ wc_out.raised = "ValueError"
               /\ v \in wc_out.message.missing
               /\ wc_out.message.shape = "oshape"
          ELSE wc_out.raised = "no"
               => wc_out.results[v].origin =
                     CHOOSE i \in InputsWith(v) : \A j \in InputsWith(v) : i <= j

\* C24, amended: a requested variable that calculate does not return is
\* taken from the first input container that holds it with the expected
\* shape; when there is none and the last input container does not hold the
\* name, the array the wrapper added for it (NaN, or the copy of its initial
\* values) is the result and no error is raised; the chunk fails with a
\* ValueError naming the variables and the expected shape exactly for the
\* variables that the last input container holds while no input container
\* holds them with the expected shape.
C24_MissingResultRaisesOnShapeMismatch ==
    WrapCalled
    => /\ wc_out.raised = "ValueError" <=> wc_out.message.missing # {}
       /\ wc_out.raised = "ValueError" => wc_out.message.shape = "oshape"
       /\ wc_out.message.missing =
             {v \in NotReturned : InputsWith(v) = {} /\ v \in DOMAIN LastInput}
       /\ wc_out.raised = "no"
          => \A v \in NotReturned :
                wc_out.results[v].origin =
                   IF InputsWith(v) # {}
                   THEN CHOOSE i \in InputsWith(v) :
                           \A j \in InputsWith(v) : i <= j
                   ELSE IF v \in wc_in.init_vars THEN "prev" ELSE "nan"

\* calculate returned nothing for a variable that no input container holds:
\* the wrapper returned the NaN array it had added
C24_Witness ==
    /\ wc_out.raised = "no"
    /\ \E v \in NotReturned :
          /\ \A i \in 1..Len(wc_in.data) : v \notin DOMAIN wc_in.data[i]
          /\ wc_out.results[v].origin = "nan"

\* the chunk failed for a variable held with another shape
C24_WitnessRaised ==
    /\ wc_out.raised = "ValueError"
    /\ Len(wc_in.data) = 3
    /\ wc_out.message.missing # NotReturned

(***************************************************************************)
(* Claims on WindFarm.add_turbine, checked under SpecFarm                  *)
(***************************************************************************)
\* C25: after any sequence of add_turbine calls (with turbines passed with or
\* without a preset index), the N turbines of the farm carry the indices
\* 0..N-1, each exactly once, and the index of a turbine never changes after
\* it was added.
C25_IndicesAreZeroToNMinusOne ==
    /\ {turbines[n].index : n \in 1..Len(turbines)} = 0..(Len(turbines) - 1)
    /\ \A m, n \in 1..Len(turbines) :
          turbines[m].index = turbines[n].index => m = n

\* the indices of the turbines of the farm stay as they are
C25_IndexNeverChanges ==
    [][\A n \in 1..Len(turbines) : turbines'[n].index = turbines[n].index]_vars

(***************************************************************************)
(* Claims on Timelines.get_wake_coos, checked under SpecTrace              *)
(***************************************************************************)
\* the calculation of all states in one chunk
SingleChunk == [tr_in EXCEPT !.i0 = 0, !.n_states = tr_in.n_all]

\* g, g - 1, ..., 0
Backwards(g) == [n \in 1..(g + 1) |-> g + 1 - n]

IsPrefix(a, b) == Len(a) <= Len(b) /\ \A n \in 1..Len(a) : a[n] = b[n]

\* C26: get_wake_coos gives a state the same wake coordinates whatever chunk
\* it is processed in: for the state with global index g the backward trace
\* uses the displacement vectors dxy[g], dxy[g-1], ..., dxy[0] in this order,
\* independent of the global index of the chunk's first state.
C26_SameCoordinatesInAnyChunk ==
    tr_pc = "returned"
    => \A s \in ChunkStates(tr_in) :
          /\ IsPrefix(trace.used[s], Backwards(tr_in.i0 + s))
          /\ trace.wcx[s] =
                trace_loop(trace_start(SingleChunk), SingleChunk).wcx[tr_in.i0 + s]

\* the traces that take part in the next tracing iteration
ActiveTraces == sel(trace, tr_in)

\* C30: get_wake_coos terminates for every input: in each iteration of its
\* tracing loop the state index of every still-active trace strictly
\* decreases, a trace becomes inactive once its index is below 0 or its
\* length reaches max_wake_length, and the loop exits after at most n_states
\* tracing iterations.
C30_TraceLoopTerminates ==
    /\ [][tr_iters' # tr_iters
            => /\ \A s \in ActiveTraces : trace'.si[s] < trace.si[s]
               /\ \A s \in ChunkStates(tr_in) \ ActiveTraces :
                     /\ trace'.si[s] = trace.si[s]
                     /\ trace'.l[s] = trace.l[s]]_vars
    /\ [](\A s \in ChunkStates(tr_in) :
             (trace.si[s] < 0 \/ trace.l[s] >= tr_in.max_wake_length)
                => s \notin ActiveTraces)
    /\ [](tr_iters <= tr_in.n_states)
    /\ <>(tr_pc = "returned")

\* the loop was left after n_states iterations over three states, one trace
\* having reached max_wake_length and another only the first state
C30_Witness ==
    /\ tr_pc = "returned"
    /\ tr_in.n_states = 3
    /\ tr_iters = 3
    /\ \E s \in ChunkStates(tr_in) : trace.l[s] >= tr_in.max_wake_length
    /\ \E s \in ChunkStates(tr_in) :
          trace.si[s] < 0 /\ trace.l[s] < tr_in.max_wake_length

(***************************************************************************)
(* Claims on DaskEngine.initialize, checked under SpecDaskInit             *)
(***************************************************************************)
\* C27: when DaskEngine.initialize fails because another engine is already
\* active, the failing engine has acquired nothing: no cluster or client has
\* been launched, no progress bar is registered and the dask configuration
\* is unchanged.
C27_FailedInitializeAcquiresNothing ==
    di_pc = "ValueError"
    => /\ di_self._cluster = "none"
       /\ di_self._client = "none"
       /\ ~di_self.pbar_registered
       /\ di_config.now = di_config.start

(***************************************************************************)
(* Claims on Engine.loop_dims, checked under SpecDims                      *)
(***************************************************************************)
InList(x, list) == \E n \in 1..Len(list) : list[n] = x

\* C29: loop_dims contains the state dimension exactly when chunk_size_states
\* is set and the target dimension exactly when chunk_size_points is set,
\* for all four combinations of set/unset chunk sizes.
C29_LoopDimsFollowChunkSizes ==
    ld_dims # None
    => /\ InList("state", ValueOf(ld_dims)) <=> ld_self.chunk_size_states # None
       /\ InList("target", ValueOf(ld_dims)) <=> ld_self.chunk_size_points # None

====
